---- MODULE Spec2Model ----
(***************************************************************************)
(* A model of the command execution engine of instabot-trader: the         *)
(* exchange manager's reference-counted pool, the argument normaliser of   *)
(* ExchangeCommand, the polling scheduler driving the trailing commands,   *)
(* and the aggressive entry algorithmic order.                             *)
(*                                                                         *)
(* Every async function is cut at its awaits that reach the outside world  *)
(* (API port calls, waitSeconds): between two such points the code runs    *)
(* to completion, so each action is one such run.                          *)
(***************************************************************************)
EXTENDS Integers, Sequences, FiniteSets, TLC

\* ------------------------------------------------------------------------
\* Bounds of the model
\* ------------------------------------------------------------------------

\* concurrent users of the manager (each opens once and closes once)
NumCallers == 3

\* distinct credentials records
NumCreds == 2

\* prices run over 1..MaxPrice
MaxPrice == 3

\* amounts passed to a command run over 0..MaxAmount
MaxAmount == 2

\* the wallet holds 0..MaxAsset of the asset
MaxAsset == 2

Callers == 1..NumCallers

Prices == 1..MaxPrice

\* what api.ticker can return: a bid not above the ask, and the last price
Tickers == {t \in [bid : Prices, ask : Prices, last : Prices] : t.bid <= t.ask}

\* what api.walletBalances can return: the asset held and the currency
\* available (nothing, or enough for any order)
Wallets == [asset : 0..MaxAsset, currency : {0, MaxPrice * (MaxAmount + MaxAsset)}]

Creds == 1..NumCreds

\* an exchange instance is identified by the caller that constructed it
Exchanges == Callers

NoExchange == 0

\* ------------------------------------------------------------------------
\* State
\* ------------------------------------------------------------------------

VARIABLES
    \* --- ExchangeManager ---
    opened,      \* this.opened: the sequence of open exchange instances
    refCount,    \* per instance: the exchange's reference count
    exCred,      \* per instance: the credentials it was constructed with (0: not constructed)
    initDone,    \* per instance: init() has completed successfully
    termCalls,   \* per instance: number of calls of terminate()
    handedOut,   \* per instance: number of openExchange calls that returned it
    cpc,         \* per caller: where it is in openExchange / closeExchange
    ccred,       \* per caller: the credentials it opens
    cex          \* per caller: the exchange it works on

VARIABLES
    \* --- one command (stopMarket / trailingStop / trailingTakeProfit) ---
    kind,            \* the command's class
    expected,        \* the default arguments setup() hands to prepareArguments
    passed,          \* the arguments passed to setup()
    ticker,          \* the market: [bid, ask, last]
    wallet,          \* the wallet: [asset, currency]
    args,            \* this.args
    setupErr,        \* message of the error thrown by setup() ("" if none)
    pc,              \* where the command is
    order,           \* this.order (0: null)
    lastPrice,       \* this.lastPrice
    hasTriggered,    \* this.hasTriggered
    pendingPrice,    \* the price of the updateOrderPrice call in flight
    waitTime,        \* runToCompletion's waitTime
    lastState,       \* the state the polling loop obtained last
    algoOrders,      \* the exchange's algo-order registry: {[id, cancelled]}
    backgroundTasks, \* the exchange's background-task set
    returned,        \* addTask has returned to the sequence runner
    mrtc,            \* maybeRunToCompletion: the state it was given, the state it returned
    brokerStatus,    \* broker side: the state of the command's current order
    nextOrderId,     \* broker side: the id the next placed or moved order gets
    sessionOrder,    \* the order registered under the command's session and tag
    stopCalls,       \* api.stopOrder calls made, in order
    cancelCalls,     \* api.cancelOrders calls made, in order (the order cancelled)
    onCancelledCalls,\* calls of the command's onCancelled
    pollsSinceCancelSeen, \* backgroundExecute calls after the loop saw the cancel flag
    cancelledAt      \* what the command had seen of the market when it was cancelled

VARIABLES
    \* --- an aggressive entry (with kind, pc, args, ticker, wallet, waitTime,
    \* algoOrders, brokerStatus, nextOrderId, cancelCalls and returned above) ---
    activeOrder,     \* activeOrder (0: null)
    activePrice,     \* activePrice
    amountLeft,      \* amountLeft
    currentPrice,    \* currentPrice of the loop's iteration
    slippagePrice,   \* slippagePrice
    expired,         \* the clock has passed expiryTime
    orderAmount,     \* broker side: the amount of the active order
    executed,        \* broker side: how much of the active order is executed
    infoExecuted,    \* orderInfo.executed of the answer the entry is acting on
    executedBefore,  \* broker side: what the entry's earlier orders have executed
    leftOrders,      \* broker side: open orders placeOrderAtTop went on from, unread
    exitBy           \* the return statement the entry left by

VARIABLES
    \* --- one block of a message: executeCommandSequence on an open exchange
    \* (with algoOrders and backgroundTasks above; a task's id is the index of
    \* the action that started it) ---
    actions,         \* the parsed actions of the block, in order
    next,            \* index of the action the for loop is at
    seqPc,           \* where the block is
    started,         \* indexes of the actions executeCommand was invoked for, in order
    inFlight,        \* indexes of the actions whose executeCommand has not returned
    thrown,          \* class of the error that stopped the sequence ("" if none)
    errorLog,        \* logger.error calls, in order
    positionSize,    \* the open position ex.positionSize reports
    taskLog,         \* per action index: what last happened to the task it started
    waitCalls        \* calls of exchange.waitForBackgroundTasks

seqVars == <<actions, next, seqPc, started, inFlight, thrown, errorLog, positionSize, taskLog,
             waitCalls>>

VARIABLES
    \* --- a stopAndTakeProfitOrder (with kind, pc, expected, passed, args,
    \* setupErr, nextOrderId, stopCalls, cancelCalls and returned above) ---
    tpOrder,         \* tpOrder (0: not placed)
    slOrder,         \* slOrder (0: not placed)
    tpStatus,        \* broker side: the state of the take-profit order
    slStatus,        \* broker side: the state of the stop order
    limitCalls,      \* limitOrder commands executed, in order
    observed         \* what ended the loop: the leg seen done, or the failed query

stpVars == <<tpOrder, slOrder, tpStatus, slStatus, limitCalls, observed>>

VARIABLES
    \* --- one message given to executeMessage ---
    message,         \* msg: the message text
    credentials,     \* the credentials list given with it
    msgPc,           \* "none", "received", "alerted", "mapped", "ignored"
    sent,            \* the texts handed to notifier.send, in order
    blocks,          \* executeMessage's blocks array
    blockPc,         \* per block: where its async function stands
    openCalls,       \* openExchange calls: <<block index, name, credentials entry>>
    ran              \* executeCommandSequence calls: <<block index, symbol, actions>>

msgVars == <<message, credentials, msgPc, sent, blocks, blockPc, openCalls, ran>>

VARIABLES
    \* --- the exchange's configuration, set by its constructor ---
    minPollingDelay, \* this.minPollingDelay
    maxPollingDelay  \* this.maxPollingDelay

cfgVars == <<minPollingDelay, maxPollingDelay>>

aggrVars == <<activeOrder, activePrice, amountLeft, currentPrice, slippagePrice, expired,
              orderAmount, executed, infoExecuted, executedBefore, leftOrders, exitBy>>

cmdVars == <<kind, expected, passed, ticker, wallet, args, setupErr, pc, order, lastPrice,
             hasTriggered, pendingPrice, waitTime, lastState, algoOrders,
             backgroundTasks, returned, mrtc, brokerStatus, nextOrderId, sessionOrder,
             stopCalls, cancelCalls, onCancelledCalls, pollsSinceCancelSeen, cancelledAt>>

mgrVars == <<opened, refCount, exCred, initDone, termCalls, handedOut, cpc, ccred, cex>>

\* what the manager's actions leave alone
notMgr == <<cmdVars, aggrVars, seqVars, stpVars, msgVars, cfgVars>>

\* what a command's actions leave alone
notCmd == <<mgrVars, aggrVars, seqVars, stpVars, msgVars, cfgVars>>

\* ------------------------------------------------------------------------
\* Exchange (reference counting) -- exchange.js is not part of the sources
\* ------------------------------------------------------------------------

\* a new exchange holds one reference, for the caller that constructed it
InitialRefCount == 1

addReference(rc) == rc + 1

removeReference(rc) == rc - 1

\* el.matches(credentials): the instance was built from this credentials record
matches(e, cred) == exCred[e] = cred

\* ------------------------------------------------------------------------
\* ExchangeManager
\* ------------------------------------------------------------------------

\* this.opened.find(el => el.matches(credentials)): index of the first match, 0 if none
findOpenedIndex(cred) ==
    IF \E i \in 1..Len(opened) : matches(opened[i], cred)
    THEN CHOOSE i \in 1..Len(opened) :
            /\ matches(opened[i], cred)
            /\ \A j \in 1..(i - 1) : ~matches(opened[j], cred)
    ELSE 0

\* a lookup that never finds an open exchange
findOpenedNever(cred) == NoExchange

\* findOpened(credentials)
findOpened(cred) ==
    IF findOpenedIndex(cred) = 0 THEN NoExchange ELSE opened[findOpenedIndex(cred)]

\* this.opened.filter(item => item !== exchange)
RECURSIVE withoutExchange(_, _)
withoutExchange(list, e) ==
    IF list = <<>> THEN <<>>
    ELSE IF Head(list) = e THEN withoutExchange(Tail(list), e)
         ELSE <<Head(list)>> \o withoutExchange(Tail(list), e)

EmptyPool ==
    /\ opened = <<>>
    /\ refCount = [e \in Exchanges |-> 0]
    /\ exCred = [e \in Exchanges |-> 0]
    /\ initDone = [e \in Exchanges |-> FALSE]
    /\ termCalls = [e \in Exchanges |-> 0]
    /\ handedOut = [e \in Exchanges |-> 0]
    /\ cpc = [c \in Callers |-> "idle"]
    /\ ccred \in [Callers -> Creds]
    /\ cex = [c \in Callers |-> NoExchange]

\* openExchange, the exchange is already in the pool: take a reference and return it
OpenExisting(c) ==
    /\ cpc[c] = "idle"
    /\ findOpened(ccred[c]) # NoExchange
    /\ LET e == findOpened(ccred[c]) IN
        /\ refCount' = [refCount EXCEPT ![e] = addReference(@)]
        /\ handedOut' = [handedOut EXCEPT ![e] = @ + 1]
        /\ cex' = [cex EXCEPT ![c] = e]
    /\ cpc' = [cpc EXCEPT ![c] = "open"]
    /\ UNCHANGED <<notMgr, opened, exCred, initDone, termCalls, ccred>>

\* openExchange, no match: construct, push to the pool, then await init()
OpenCreate(c) ==
    /\ cpc[c] = "idle"
    /\ findOpened(ccred[c]) = NoExchange
    /\ exCred[c] = 0
    /\ exCred' = [exCred EXCEPT ![c] = ccred[c]]
    /\ refCount' = [refCount EXCEPT ![c] = InitialRefCount]
    /\ opened' = Append(opened, c)
    /\ cex' = [cex EXCEPT ![c] = c]
    /\ cpc' = [cpc EXCEPT ![c] = "init"]
    /\ UNCHANGED <<notMgr, initDone, termCalls, handedOut, ccred>>

\* init() resolved: openExchange returns the new exchange
InitOk(c) ==
    /\ cpc[c] = "init"
    /\ initDone' = [initDone EXCEPT ![cex[c]] = TRUE]
    /\ handedOut' = [handedOut EXCEPT ![cex[c]] = @ + 1]
    /\ cpc' = [cpc EXCEPT ![c] = "open"]
    /\ UNCHANGED <<notMgr, opened, refCount, exCred, termCalls, ccred, cex>>

\* closeExchange up to its await: look the exchange up, drop a reference and,
\* at zero, call terminate(). `after` is where the caller goes when
\* closeExchange returns without awaiting, `awaiting` where it awaits terminate().
closeExchange(c, after, awaiting) ==
    LET e == cex[c] IN
    IF findOpened(exCred[e]) = NoExchange
    THEN /\ cpc' = [cpc EXCEPT ![c] = after]
         /\ UNCHANGED <<refCount, termCalls>>
    ELSE /\ refCount' = [refCount EXCEPT ![e] = removeReference(@)]
         /\ IF removeReference(refCount[e]) <= 0
            THEN /\ termCalls' = [termCalls EXCEPT ![e] = @ + 1]
                 /\ cpc' = [cpc EXCEPT ![c] = awaiting]
            ELSE /\ cpc' = [cpc EXCEPT ![c] = after]
                 /\ UNCHANGED termCalls

\* init() threw: the catch closes the new exchange and openExchange returns null
InitFail(c) ==
    /\ cpc[c] = "init"
    /\ closeExchange(c, "null", "failTerminate")
    /\ UNCHANGED <<notMgr, opened, exCred, initDone, handedOut, ccred, cex>>

\* the deferred closeExchange of a block that held the exchange
CloseBegin(c) ==
    /\ cpc[c] = "open"
    /\ closeExchange(c, "closed", "terminating")
    /\ UNCHANGED <<notMgr, opened, exCred, initDone, handedOut, ccred, cex>>

\* a close that leaves the terminated exchange in the pool
CloseFinishKeepsEntry(c) ==
    /\ cpc[c] \in {"terminating", "failTerminate"}
    /\ cpc' = [cpc EXCEPT ![c] = IF cpc[c] = "terminating" THEN "closed" ELSE "null"]
    /\ UNCHANGED <<notMgr, opened, refCount, exCred, initDone, termCalls, handedOut, ccred,
                   cex>>

\* terminate() resolved: the exchange is removed from the pool
CloseFinish(c) ==
    /\ cpc[c] \in {"terminating", "failTerminate"}
    /\ opened' = withoutExchange(opened, cex[c])
    /\ cpc' = [cpc EXCEPT ![c] = IF cpc[c] = "terminating" THEN "closed" ELSE "null"]
    /\ UNCHANGED <<notMgr, refCount, exCred, initDone, termCalls, handedOut, ccred, cex>>

NextMgr ==
    \E c \in Callers :
        \/ OpenExisting(c)
        \/ OpenCreate(c)
        \/ InitOk(c)
        \/ InitFail(c)
        \/ CloseBegin(c)
        \/ CloseFinish(c)

\* every caller has finished: each successful open has been closed
MgrQuiescent == \A c \in Callers : cpc[c] \in {"closed", "null"}

\* C1: with every successful open matched by one close, terminate() is called
\* on an exchange exactly once: never twice, and once when all closes are done.
C1_TerminateExactlyOnce ==
    \A e \in Exchanges :
        /\ termCalls[e] <= 1
        /\ (MgrQuiescent /\ handedOut[e] > 0) => termCalls[e] = 1

\* ------------------------------------------------------------------------
\* Strings: a string is the sequence of its characters
\* ------------------------------------------------------------------------

BUY == <<"b", "u", "y">>

SELL == <<"s", "e", "l", "l">>

MARK == <<"m", "a", "r", "k">>

INDEX == <<"i", "n", "d", "e", "x">>

LAST == <<"l", "a", "s", "t">>

TRUESTR == <<"t", "r", "u", "e">>

\* String.prototype.toLowerCase on one character
toLowerChar(c) ==
    CASE c = "A" -> "a" [] c = "B" -> "b" [] c = "C" -> "c" [] c = "D" -> "d"
      [] c = "E" -> "e" [] c = "F" -> "f" [] c = "G" -> "g" [] c = "H" -> "h"
      [] c = "I" -> "i" [] c = "J" -> "j" [] c = "K" -> "k" [] c = "L" -> "l"
      [] c = "M" -> "m" [] c = "N" -> "n" [] c = "O" -> "o" [] c = "P" -> "p"
      [] c = "Q" -> "q" [] c = "R" -> "r" [] c = "S" -> "s" [] c = "T" -> "t"
      [] c = "U" -> "u" [] c = "V" -> "v" [] c = "W" -> "w" [] c = "X" -> "x"
      [] c = "Y" -> "y" [] c = "Z" -> "z"
      [] OTHER -> c

toLowerCase(s) == [i \in 1..Len(s) |-> toLowerChar(s[i])]

\* ------------------------------------------------------------------------
\* Exchange helpers used by the normaliser -- exchange.js is not part of the
\* sources; these follow the specification (4.1, glossary) and the tests
\* ------------------------------------------------------------------------

\* smallest order the symbol accepts (NullExchange.addSymbol)
MinOrderSize == 1

ErrSide == "side must be buy or sell"

ErrZeroSize == "No funds available or order size is 0"

Ticks(n) == [kind |-> "ticks", n |-> n]

AbsPrice(x) == [kind |-> "abs", n |-> x]

Percent(n) == [kind |-> "pct", n |-> n]

\* offsetToAbsolutePrice(symbol, side, offset): a plain number is that far from
\* the side's quote, away from the market (below the bid for a buy, above the
\* ask for a sell); 'N%' is that share of the side's quote away from it; '@X'
\* is the price X
offsetToAbsolutePrice(tk, side, offset) ==
    LET quote == IF side = BUY THEN tk.bid ELSE tk.ask
        away == IF offset.kind = "pct" THEN (quote * offset.n) \div 100 ELSE offset.n
    IN IF offset.kind = "abs" THEN offset.n
       ELSE IF side = BUY THEN quote - away ELSE quote + away

\* positionToAmount(symbol, position, side, amount): with no target position the
\* side and amount stand; with one, the order is the move from the current
\* position to the target
positionToAmount(w, position, side, amount) ==
    IF position = <<>> THEN [side |-> side, amount |-> amount]
    ELSE LET change == position[1] - w.asset IN
         [side |-> IF change < 0 THEN SELL ELSE BUY,
          amount |-> IF change < 0 THEN 0 - change ELSE change]

\* orderSizeFromAmount(symbol, side, orderPrice, amount): the amount clamped to
\* what the wallet can pay for (buy) or holds (sell); below the symbol's
\* minimum order size it is 0
orderSizeFromAmount(w, side, orderPrice, amount) ==
    LET most == IF side = BUY
                THEN (IF orderPrice > 0 THEN w.currency \div orderPrice ELSE 0)
                ELSE w.asset
        size == IF amount > most THEN most ELSE amount
    IN [orderSize |-> IF size < MinOrderSize THEN 0 ELSE size,
        rawOrderSize |-> amount]

\* assignParams(expected, passed): the defaults, overridden by the passed items
\* of the same name; passed items that are no default are dropped
assignParams(defaults, given) ==
    [k \in DOMAIN defaults |-> IF k \in DOMAIN given THEN given[k] ELSE defaults[k]]

\* ------------------------------------------------------------------------
\* ExchangeCommand: argument normalisation. A normalisation state is
\* [args, err]: this.args and the message of the error thrown ("" if none);
\* a step after a throw is not run.
\* ------------------------------------------------------------------------

hasArg(a, name) == name \in DOMAIN a

setArg(a, name, v) ==
    [k \in (DOMAIN a) \cup {name} |-> IF k = name THEN v ELSE a[k]]

otherSide(side) == IF side = BUY THEN SELL ELSE BUY

\* a validateSide that compares without lower-casing
validateSideCaseSensitive(r) ==
    IF r.err # "" \/ ~hasArg(r.args, "side") THEN r
    ELSE IF r.args.side # BUY /\ r.args.side # SELL
         THEN [r EXCEPT !.err = ErrSide]
         ELSE [r EXCEPT !.args = setArg(r.args, "oppositeSide", otherSide(r.args.side))]

validateSide(r) ==
    IF r.err # "" \/ ~hasArg(r.args, "side") THEN r
    ELSE LET side == toLowerCase(r.args.side)
             a == setArg(r.args, "side", side)
         IN IF side # BUY /\ side # SELL
            THEN [args |-> a, err |-> ErrSide]
            ELSE [args |-> setArg(a, "oppositeSide", otherSide(side)), err |-> ""]

\* a validateTrigger that keeps what it was given, lower-cased
validateTriggerKeepsAny(r) ==
    IF r.err # "" \/ ~hasArg(r.args, "trigger") THEN r
    ELSE [r EXCEPT !.args = setArg(r.args, "trigger", toLowerCase(r.args.trigger))]

validateTrigger(r) ==
    IF r.err # "" \/ ~hasArg(r.args, "trigger") THEN r
    ELSE LET trigger == toLowerCase(r.args.trigger) IN
         IF trigger # MARK /\ trigger # INDEX /\ trigger # LAST
         THEN [r EXCEPT !.args = setArg(r.args, "trigger", LAST)]
         ELSE [r EXCEPT !.args = setArg(r.args, "trigger", trigger)]

validateBackground(r) ==
    IF r.err # "" \/ ~hasArg(r.args, "background") THEN r
    ELSE [r EXCEPT !.args =
            setArg(r.args, "background", toLowerCase(r.args.background) = TRUESTR)]

\* offsetToPrice(side), side being this.args[sideArg] (undefined when absent)
offsetToPrice(r, sideArg, tk) ==
    IF r.err # "" \/ ~hasArg(r.args, sideArg) \/ ~hasArg(r.args, "offset") THEN r
    ELSE [r EXCEPT !.args =
            setArg(r.args, "orderPrice",
                   offsetToAbsolutePrice(tk, r.args[sideArg], r.args.offset))]

calculatePosition(r, w) ==
    IF \/ r.err # ""
       \/ ~hasArg(r.args, "side") \/ ~hasArg(r.args, "amount") \/ ~hasArg(r.args, "position")
    THEN r
    ELSE LET modifiedPosition ==
                positionToAmount(w, r.args.position, r.args.side, r.args.amount)
         IN IF modifiedPosition.amount = 0
            THEN [r EXCEPT !.err = ErrZeroSize]
            ELSE [r EXCEPT !.args =
                    setArg(setArg(setArg(r.args, "side", modifiedPosition.side),
                                  "amount", modifiedPosition.amount),
                           "oppositeSide", otherSide(modifiedPosition.side))]

\* a calculateAmount that does not look whether the size ended up at zero
calculateAmountNoZeroCheck(r, w) ==
    IF \/ r.err # ""
       \/ ~hasArg(r.args, "side") \/ ~hasArg(r.args, "orderPrice") \/ ~hasArg(r.args, "amount")
    THEN r
    ELSE LET adjusted ==
                orderSizeFromAmount(w, r.args.side, r.args.orderPrice, r.args.amount)
         IN [r EXCEPT !.args = setArg(setArg(r.args, "amount", adjusted.orderSize),
                                      "originalAmount", adjusted.rawOrderSize)]

calculateAmount(r, w) ==
    IF \/ r.err # ""
       \/ ~hasArg(r.args, "side") \/ ~hasArg(r.args, "orderPrice") \/ ~hasArg(r.args, "amount")
    THEN r
    ELSE LET adjusted ==
                orderSizeFromAmount(w, r.args.side, r.args.orderPrice, r.args.amount)
             a == setArg(setArg(r.args, "amount", adjusted.orderSize),
                         "originalAmount", adjusted.rawOrderSize)
         IN [args |-> a, err |-> IF adjusted.orderSize = 0 THEN ErrZeroSize ELSE ""]

\* ExchangeCommand.prepareArguments
prepareArguments(defaults, given, tk, w) ==
    LET r0 == [args |-> assignParams(defaults, given), err |-> ""]
        r1 == validateBackground(validateTrigger(validateSide(r0)))
        r2 == calculatePosition(r1, w)
        r3 == offsetToPrice(r2, "side", tk)
    IN calculateAmount(r3, w)

\* a stop command that keeps the price computed for its own side
prepareArgumentsStopOwnSide(defaults, given, tk, w) ==
    validateTrigger(prepareArguments(defaults, given, tk, w))

\* StopMarketCommand.prepareArguments (inherited by TrailingStopCommand)
prepareArgumentsStop(defaults, given, tk, w) ==
    validateTrigger(offsetToPrice(prepareArguments(defaults, given, tk, w),
                                  "oppositeSide", tk))

\* TrailingTakeProfitCommand.triggerOffsetToPrice
triggerOffsetToPrice(r, tk) ==
    IF r.err # "" \/ ~hasArg(r.args, "side") \/ ~hasArg(r.args, "triggerOffset") THEN r
    ELSE [r EXCEPT !.args =
            setArg(r.args, "triggerPrice",
                   offsetToAbsolutePrice(tk, r.args.side, r.args.triggerOffset))]

\* TrailingTakeProfitCommand.prepareArguments
prepareArgumentsTakeProfit(defaults, given, tk, w) ==
    triggerOffsetToPrice(prepareArgumentsStop(defaults, given, tk, w), tk)

\* TrailingStopCommand.calculateTrailingOffset
calculateTrailingOffset(r, initialPrice) ==
    IF r.err # "" THEN r
    ELSE LET d == initialPrice - r.args.orderPrice IN
         [r EXCEPT !.args =
            setArg(r.args, "trailingOffset",
                   IF r.args.offset.kind = "abs"
                   THEN Ticks(IF d < 0 THEN 0 - d ELSE d)
                   ELSE r.args.offset)]

\* ------------------------------------------------------------------------
\* The commands: setup
\* ------------------------------------------------------------------------

\* the algo-order id of the command (ExchangeCommand.constructor: this.id)
TaskId == 1

NoOrder == 0

\* polling bounds of the exchange, in seconds (NullExchange.constructor)
MinPollingDelay == 0

MaxPollingDelay == 2

\* the polling delays of the null exchange
NullExchangeDelays ==
    /\ minPollingDelay = MinPollingDelay
    /\ maxPollingDelay = MaxPollingDelay

StopMarketDefaults ==
    [side |-> BUY, offset |-> Ticks(0), amount |-> 0, position |-> <<>>, trigger |-> MARK]

TrailingStopDefaults ==
    [side |-> SELL, amount |-> 0, position |-> <<>>, offset |-> Ticks(0),
     trigger |-> LAST, background |-> TRUESTR]

TrailingTakeProfitDefaults ==
    [side |-> SELL, amount |-> 0, position |-> <<>>, offset |-> Ticks(0),
     trigger |-> LAST, triggerOffset |-> Percent(1), background |-> TRUESTR]

\* setup() of the command's class: the normalisation state it ends in
setup(k, defaults, given, tk, w) ==
    CASE k = "stopMarket" -> prepareArgumentsStop(defaults, given, tk, w)
      [] k = "trailingStop" ->
            LET r == prepareArgumentsStop(defaults, given, tk, w) IN
            calculateTrailingOffset(
                r, offsetToAbsolutePrice(tk, r.args.oppositeSide, Ticks(0)))
      [] k = "trailingTakeProfit" ->
            LET r == prepareArgumentsTakeProfit(defaults, given, tk, w) IN
            calculateTrailingOffset(r, r.args.triggerPrice)
      [] OTHER -> prepareArguments(defaults, given, tk, w)

\* canCompleteInBackground()
canCompleteInBackground ==
    IF kind \in {"trailingStop", "trailingTakeProfit"} THEN args.background ELSE TRUE

\* ------------------------------------------------------------------------
\* Exchange: algo-order registry and background tasks -- exchange.js is not
\* part of the sources; these follow the specification (3, 4.2, 4.3)
\* ------------------------------------------------------------------------

startAlgoOrder(reg, id) == reg \cup {[id |-> id, cancelled |-> FALSE]}

endAlgoOrder(reg, id) == {o \in reg : o.id # id}

isAlgoOrderCancelled(reg, id) == \E o \in reg : o.id = id /\ o.cancelled

cancelAlgorithmicOrders(reg, id) ==
    {IF o.id = id THEN [o EXCEPT !.cancelled = TRUE] ELSE o : o \in reg}

\* ------------------------------------------------------------------------
\* ExchangeCommand.runToCompletion, and the commands' execute,
\* backgroundExecute and onCancelled
\* ------------------------------------------------------------------------

\* cancelOrders(which=all): every algo order of the session is marked cancelled
cancelSessionAlgoOrders(reg) == {[o EXCEPT !.cancelled = TRUE] : o \in reg}

\* the next wait: waitTime + 1, capped at maxPollingDelay
nextWaitTime(w) == IF w >= maxPollingDelay THEN maxPollingDelay ELSE w + 1

\* a loop that forgets to finish a cancelled command
stateAfterCancelKeepGoing == "keepGoing"

\* the state the loop takes once onCancelled() has returned
stateAfterCancel == "finished"

\* a loop that never calls endAlgoOrder
removeIfFinishedNever(reg, state, id) == reg

\* If the command has finished, remove it from the algo order list
removeIfFinished(reg, state, id) ==
    IF state = "finished" THEN endAlgoOrder(reg, id) ELSE reg

\* the polling loop has obtained `state`: at Finished the loop ends (and the
\* task leaves the background set, or addTask returns), otherwise it sleeps
Obtain(state) ==
    /\ lastState' = state
    /\ algoOrders' = removeIfFinished(algoOrders, state, TaskId)
    /\ IF state = "finished"
       THEN /\ pc' = "done"
            /\ backgroundTasks' = backgroundTasks \ {TaskId}
            /\ returned' = TRUE
            /\ mrtc' = IF returned THEN mrtc ELSE [mrtc EXCEPT !.result = "finished"]
       ELSE /\ pc' = "sleep"
            /\ UNCHANGED <<backgroundTasks, returned, mrtc>>

\* a command that is never run to completion by the caller
completesNowNever(state, background) == FALSE

\* maybeRunToCompletion awaits runToCompletion ("We want to complete now"):
\* the state is not Finished and the command cannot complete in the background
completesNow(state, background) == state # "finished" /\ ~background

\* maybeRunToCompletion(state) as addTask uses it: a finished command is done;
\* one that may complete in the background is handed to the background tasks
\* and addTask returns; otherwise runToCompletion is awaited before addTask
\* returns. Either way the same polling loop starts.
maybeRunToCompletion(state, background, reg) ==
    /\ lastState' = state
    /\ algoOrders' = removeIfFinished(reg, state, TaskId)
    /\ IF state = "finished"
       THEN /\ pc' = "done"
            /\ returned' = TRUE
            /\ mrtc' = [state |-> state, result |-> state]
            /\ UNCHANGED <<backgroundTasks, waitTime>>
       ELSE /\ pc' = "sleep"
            /\ waitTime' = minPollingDelay
            /\ backgroundTasks' =
                  IF background THEN backgroundTasks \cup {TaskId} ELSE backgroundTasks
            /\ returned' = ~completesNow(state, background)
            /\ mrtc' = [state |-> state,
                        result |-> IF completesNow(state, background) THEN "none" ELSE state]

\* the stop order a command asks the broker for (StopMarketCommand.openStopOrder)
stopOrderCall(a) ==
    [amount |-> a.amount, price |-> a.orderPrice, side |-> a.side, trigger |-> a.trigger]

\* a trailing stop that follows the market both ways
updateTrailingOrderPriceNoRatchet(tk, a, last) ==
    offsetToAbsolutePrice(tk, a.oppositeSide, a.trailingOffset)

\* TrailingStopCommand.updateTrailingOrderPrice
updateTrailingOrderPrice(tk, a, last) ==
    LET updatedOrderPrice == offsetToAbsolutePrice(tk, a.oppositeSide, a.trailingOffset) IN
    IF a.side = BUY
    THEN (IF updatedOrderPrice < last THEN updatedOrderPrice ELSE last)
    ELSE (IF updatedOrderPrice > last THEN updatedOrderPrice ELSE last)

Max3(x, y, z) ==
    LET m == IF x > y THEN x ELSE y IN IF m > z THEN m ELSE z

Min3(x, y, z) ==
    LET m == IF x < y THEN x ELSE y IN IF m < z THEN m ELSE z

\* TrailingTakeProfitCommand.waitForTriggerPrice: the price watched
watchedPrice(tk, a) ==
    IF a.side = SELL THEN Max3(tk.bid, tk.ask, tk.last) ELSE Min3(tk.bid, tk.ask, tk.last)

\* a trigger test that looks at the last trade only
hasCrossedLastOnly(tk, a) ==
    IF a.side = SELL THEN tk.last >= a.triggerPrice ELSE tk.last <= a.triggerPrice

\* TrailingTakeProfitCommand.waitForTriggerPrice: hasCrossed
hasCrossed(tk, a) ==
    IF a.side = SELL THEN watchedPrice(tk, a) >= a.triggerPrice
    ELSE watchedPrice(tk, a) <= a.triggerPrice

\* setup(args)
Setup ==
    /\ pc = "new"
    /\ kind \in {"stopMarket", "trailingStop", "trailingTakeProfit", "command"}
    /\ LET r == setup(kind, expected, passed, ticker, wallet) IN
        /\ args' = r.args
        /\ setupErr' = r.err
        /\ pc' = IF r.err = "" THEN "ready" ELSE "setupFailed"
    /\ UNCHANGED <<notCmd, cancelledAt, kind, expected, passed, ticker, wallet, order, lastPrice, hasTriggered,
                   pendingPrice, waitTime, lastState, algoOrders, backgroundTasks,
                   returned, mrtc, brokerStatus, nextOrderId, sessionOrder, stopCalls,
                   cancelCalls, onCancelledCalls, pollsSinceCancelSeen>>

\* addTask(task) of a stop command: register the algo order and call execute(),
\* which asks the broker for the stop order
AddTaskStop ==
    /\ pc = "ready"
    /\ kind \in {"stopMarket", "trailingStop"}
    /\ algoOrders' = startAlgoOrder(algoOrders, TaskId)
    /\ stopCalls' = Append(stopCalls, stopOrderCall(args))
    /\ pc' = "execStop"
    /\ UNCHANGED <<notCmd, cancelledAt, kind, expected, passed, ticker, wallet, args, setupErr, order, lastPrice,
                   hasTriggered, pendingPrice, waitTime, lastState, backgroundTasks,
                   returned, mrtc, brokerStatus, nextOrderId, sessionOrder,
                   cancelCalls, onCancelledCalls, pollsSinceCancelSeen>>

\* addTask(task) of a command whose execute() places nothing: trailingTakeProfit
\* returns keepGoingBackOff, the base command finished
AddTaskNoOrder ==
    /\ pc = "ready"
    /\ kind \notin {"stopMarket", "trailingStop"}
    /\ IF kind = "trailingTakeProfit"
       THEN maybeRunToCompletion("keepGoingBackOff", canCompleteInBackground,
                                 startAlgoOrder(algoOrders, TaskId))
       ELSE /\ lastState' = "finished"
            /\ pc' = "done"
            /\ returned' = TRUE
            /\ UNCHANGED <<algoOrders, backgroundTasks, waitTime, mrtc>>
    /\ UNCHANGED <<notCmd, cancelledAt, kind, expected, passed, ticker, wallet, args, setupErr, order, lastPrice,
                   hasTriggered, pendingPrice, brokerStatus, nextOrderId, sessionOrder,
                   stopCalls, cancelCalls, onCancelledCalls, pollsSinceCancelSeen>>

\* openStopOrder after api.stopOrder resolved: the order is kept, lastPrice is
\* its price, the order is added to the session
openStopOrderDone ==
    /\ order' = nextOrderId
    /\ nextOrderId' = nextOrderId + 1
    /\ brokerStatus' = "open"
    /\ lastPrice' = args.orderPrice
    /\ sessionOrder' = nextOrderId

\* execute() of a stop command after its stop order was placed: stopMarket is
\* finished, trailingStop keeps going
ExecuteStopPlaced ==
    /\ pc = "execStop"
    /\ openStopOrderDone
    /\ maybeRunToCompletion(IF kind = "stopMarket" THEN "finished" ELSE "keepGoing",
                            canCompleteInBackground, algoOrders)
    /\ UNCHANGED <<notCmd, cancelledAt, kind, expected, passed, ticker, wallet, args, setupErr, hasTriggered,
                   pendingPrice, stopCalls, cancelCalls, onCancelledCalls,
                   pollsSinceCancelSeen>>

\* an onCancelled that does not look whether there is an order
onCancelledRequestsAlways(ord) == <<ord>>

\* TrailingStopCommand.onCancelled: the orders it asks the broker to cancel
onCancelledRequests(ord) == IF ord # NoOrder THEN <<ord>> ELSE <<>>

\* what no step of the polling loop changes
loopFrame == <<notCmd, cancelledAt, kind, expected, passed, ticker, wallet, setupErr>>

\* runToCompletion wakes from waitSeconds and the registry marks the command
\* cancelled: onCancelled() of a trailing command whose order is set asks the
\* broker to cancel it
WakeCancelledOrder ==
    /\ pc = "sleep"
    /\ isAlgoOrderCancelled(algoOrders, TaskId)
    /\ onCancelledRequests(order) # <<>>
    /\ waitTime' = nextWaitTime(waitTime)
    /\ onCancelledCalls' = onCancelledCalls + 1
    /\ cancelCalls' = cancelCalls \o onCancelledRequests(order)
    /\ pc' = "cancelling"
    /\ UNCHANGED <<loopFrame, args, order, lastPrice, hasTriggered, pendingPrice, lastState,
                   algoOrders, backgroundTasks, returned, mrtc, brokerStatus, nextOrderId,
                   sessionOrder, stopCalls, pollsSinceCancelSeen>>

\* api.cancelOrders resolved: onCancelled() returns and the loop takes the
\* state that follows a cancellation
CancelReturns ==
    /\ pc = "cancelling"
    /\ brokerStatus' = IF brokerStatus = "open" THEN "closed" ELSE brokerStatus
    /\ Obtain(stateAfterCancel)
    /\ UNCHANGED <<loopFrame, args, order, lastPrice, hasTriggered, pendingPrice, waitTime,
                   nextOrderId, sessionOrder, stopCalls, cancelCalls, onCancelledCalls,
                   pollsSinceCancelSeen>>

\* the same wake with no order set (a trailingTakeProfit that has not placed
\* its stop): onCancelled() calls nothing
WakeCancelledNoOrder ==
    /\ pc = "sleep"
    /\ isAlgoOrderCancelled(algoOrders, TaskId)
    /\ onCancelledRequests(order) = <<>>
    /\ waitTime' = nextWaitTime(waitTime)
    /\ onCancelledCalls' = onCancelledCalls + 1
    /\ Obtain(stateAfterCancel)
    /\ UNCHANGED <<loopFrame, args, order, lastPrice, hasTriggered, pendingPrice,
                   brokerStatus, nextOrderId, sessionOrder, stopCalls, cancelCalls,
                   pollsSinceCancelSeen>>

\* runToCompletion wakes, the command is not cancelled: backgroundExecute() is
\* called. A trailingTakeProfit that has not triggered asks for the ticker, any
\* other poll is trackStopOrder and asks the broker for the order
WakePoll ==
    /\ pc = "sleep"
    /\ ~isAlgoOrderCancelled(algoOrders, TaskId)
    /\ waitTime' = nextWaitTime(waitTime)
    /\ pollsSinceCancelSeen' =
          IF onCancelledCalls > 0 THEN pollsSinceCancelSeen + 1 ELSE pollsSinceCancelSeen
    /\ pc' = IF kind = "trailingTakeProfit" /\ ~hasTriggered THEN "waitTicker" ELSE "trackOrder"
    /\ UNCHANGED <<loopFrame, args, order, lastPrice, hasTriggered, pendingPrice, lastState,
                   algoOrders, backgroundTasks, returned, mrtc, brokerStatus, nextOrderId,
                   sessionOrder, stopCalls, cancelCalls, onCancelledCalls>>

\* trackStopOrder: api.order says the order is filled or no longer open
TrackOrderDone ==
    /\ pc = "trackOrder"
    /\ brokerStatus \in {"filled", "closed"}
    /\ Obtain("finished")
    /\ UNCHANGED <<loopFrame, args, order, lastPrice, hasTriggered, pendingPrice, waitTime,
                   brokerStatus, nextOrderId, sessionOrder, stopCalls, cancelCalls,
                   onCancelledCalls, pollsSinceCancelSeen>>

\* trackStopOrder: api.order returns the open order, or null for an order the
\* broker does not show yet; the command goes on to ask for the price
TrackOrderOpen ==
    /\ pc = "trackOrder"
    /\ brokerStatus = "open"
    /\ pc' = "trackTicker"
    /\ UNCHANGED <<loopFrame, args, order, lastPrice, hasTriggered, pendingPrice, waitTime,
                   lastState, algoOrders, backgroundTasks, returned, mrtc, brokerStatus,
                   nextOrderId, sessionOrder, stopCalls, cancelCalls, onCancelledCalls,
                   pollsSinceCancelSeen>>

\* a poll that asks for a fast next poll although nothing moved
TrackNoMoveKeepGoing ==
    /\ pc = "trackTicker"
    /\ updateTrailingOrderPrice(ticker, args, lastPrice) = lastPrice
    /\ Obtain("keepGoing")
    /\ UNCHANGED <<loopFrame, args, order, lastPrice, hasTriggered, pendingPrice, waitTime,
                   brokerStatus, nextOrderId, sessionOrder, stopCalls, cancelCalls,
                   onCancelledCalls, pollsSinceCancelSeen>>

\* trackStopOrder with the ticker: the suggested price is lastPrice, nothing
\* moves and the poll returns keepGoingBackOff
TrackNoMove ==
    /\ pc = "trackTicker"
    /\ updateTrailingOrderPrice(ticker, args, lastPrice) = lastPrice
    /\ Obtain("keepGoingBackOff")
    /\ UNCHANGED <<loopFrame, args, order, lastPrice, hasTriggered, pendingPrice, waitTime,
                   brokerStatus, nextOrderId, sessionOrder, stopCalls, cancelCalls,
                   onCancelledCalls, pollsSinceCancelSeen>>

\* trackStopOrder with the ticker: the suggested price differs from lastPrice,
\* api.updateOrderPrice is called with it
TrackMove ==
    /\ pc = "trackTicker"
    /\ updateTrailingOrderPrice(ticker, args, lastPrice) # lastPrice
    /\ pendingPrice' = updateTrailingOrderPrice(ticker, args, lastPrice)
    /\ pc' = "updating"
    /\ UNCHANGED <<loopFrame, args, order, lastPrice, hasTriggered, waitTime, lastState,
                   algoOrders, backgroundTasks, returned, mrtc, brokerStatus, nextOrderId,
                   sessionOrder, stopCalls, cancelCalls, onCancelledCalls,
                   pollsSinceCancelSeen>>

\* api.updateOrderPrice resolved with the (new) order: session, lastPrice and
\* order are updated, the poll returns keepGoing and the wait drops to the minimum
UpdateReturns ==
    /\ pc = "updating"
    /\ order' = nextOrderId
    /\ nextOrderId' = nextOrderId + 1
    /\ sessionOrder' = IF sessionOrder = order THEN nextOrderId ELSE sessionOrder
    /\ lastPrice' = pendingPrice
    /\ waitTime' = minPollingDelay
    /\ Obtain("keepGoing")
    /\ UNCHANGED <<loopFrame, args, hasTriggered, pendingPrice, brokerStatus, stopCalls,
                   cancelCalls, onCancelledCalls, pollsSinceCancelSeen>>

\* waitForTriggerPrice with the ticker: the price has not crossed the trigger
WaitNotCrossed ==
    /\ pc = "waitTicker"
    /\ ~hasCrossed(ticker, args)
    /\ Obtain("keepGoingBackOff")
    /\ UNCHANGED <<loopFrame, args, order, lastPrice, hasTriggered, pendingPrice, waitTime,
                   brokerStatus, nextOrderId, sessionOrder, stopCalls, cancelCalls,
                   onCancelledCalls, pollsSinceCancelSeen>>

\* waitForTriggerPrice with the ticker: the price has crossed; hasTriggered is
\* set and offsetToPrice(oppositeSide) asks for the price
WaitCrossed ==
    /\ pc = "waitTicker"
    /\ hasCrossed(ticker, args)
    /\ hasTriggered' = TRUE
    /\ pc' = "triggerPrice"
    /\ UNCHANGED <<loopFrame, args, order, lastPrice, pendingPrice, waitTime, lastState,
                   algoOrders, backgroundTasks, returned, mrtc, brokerStatus, nextOrderId,
                   sessionOrder, stopCalls, cancelCalls, onCancelledCalls,
                   pollsSinceCancelSeen>>

\* offsetToPrice(oppositeSide) resolved: orderPrice is set and openStopOrder
\* asks the broker for the stop order
TriggerStopOrder ==
    /\ pc = "triggerPrice"
    /\ LET r == offsetToPrice([args |-> args, err |-> ""], "oppositeSide", ticker) IN
        /\ args' = r.args
        /\ stopCalls' = Append(stopCalls, stopOrderCall(r.args))
    /\ pc' = "triggerStop"
    /\ UNCHANGED <<loopFrame, order, lastPrice, hasTriggered, pendingPrice, waitTime,
                   lastState, algoOrders, backgroundTasks, returned, mrtc, brokerStatus,
                   nextOrderId, sessionOrder, cancelCalls, onCancelledCalls,
                   pollsSinceCancelSeen>>

\* api.stopOrder resolved in waitForTriggerPrice: the poll returns keepGoingBackOff
TriggerStopPlaced ==
    /\ pc = "triggerStop"
    /\ openStopOrderDone
    /\ Obtain("keepGoingBackOff")
    /\ UNCHANGED <<loopFrame, args, hasTriggered, pendingPrice, waitTime, stopCalls,
                   cancelCalls, onCancelledCalls, pollsSinceCancelSeen>>

\* ------------------------------------------------------------------------
\* The environment of a running command
\* ------------------------------------------------------------------------

\* the command has been started and has not ended
Running == pc \in {"execStop", "sleep", "cancelling", "trackOrder", "trackTicker",
                   "updating", "waitTicker", "triggerPrice", "triggerStop"}

envFrame == <<notCmd, kind, expected, passed, wallet, args, setupErr, pc, order, lastPrice,
              hasTriggered, pendingPrice, waitTime, lastState, backgroundTasks, returned, mrtc,
              nextOrderId, sessionOrder, stopCalls, cancelCalls, onCancelledCalls,
              pollsSinceCancelSeen>>

\* the command is waiting for api.ticker(): the only points at which it sees
\* the market
TickerAwaited == pc \in {"trackTicker", "waitTicker", "triggerPrice"}

\* the market moves before the ticker the command asked for is answered
TickerMoves ==
    /\ TickerAwaited
    /\ ticker' \in Tickers \ {ticker}
    /\ UNCHANGED <<envFrame, cancelledAt, algoOrders, brokerStatus>>

\* the broker fills the command's stop order
OrderFills ==
    /\ Running
    /\ brokerStatus = "open"
    /\ brokerStatus' = "filled"
    /\ UNCHANGED <<envFrame, cancelledAt, algoOrders, ticker>>

\* the command's stop order is closed at the broker without a fill
OrderCloses ==
    /\ Running
    /\ brokerStatus = "open"
    /\ brokerStatus' = "closed"
    /\ UNCHANGED <<envFrame, cancelledAt, algoOrders, ticker>>

\* a cancelOrders command, or any caller of cancelAlgorithmicOrders, marks the
\* command's registry entry cancelled. cancelledAt keeps where the command was:
\* a trailingTakeProfit before the market crossed its trigger price ("before"),
\* after the market crossed it but before the command saw that ("crossed"), or
\* after it triggered ("triggered")
CancelRequest ==
    /\ \E o \in algoOrders : o.id = TaskId /\ ~o.cancelled
    /\ algoOrders' = cancelAlgorithmicOrders(algoOrders, TaskId)
    /\ cancelledAt' =
          IF kind # "trailingTakeProfit" THEN "requested"
          ELSE IF hasTriggered THEN "triggered"
          ELSE IF hasCrossed(ticker, args) THEN "crossed"
          ELSE "before"
    /\ UNCHANGED <<envFrame, brokerStatus, ticker>>

\* ------------------------------------------------------------------------
\* Initial states and specifications
\* ------------------------------------------------------------------------

\* the manager with nothing opened and nobody calling
MgrIdle ==
    /\ opened = <<>>
    /\ refCount = [e \in Exchanges |-> 0]
    /\ exCred = [e \in Exchanges |-> 0]
    /\ initDone = [e \in Exchanges |-> FALSE]
    /\ termCalls = [e \in Exchanges |-> 0]
    /\ handedOut = [e \in Exchanges |-> 0]
    /\ cpc = [c \in Callers |-> "done"]
    /\ ccred = [c \in Callers |-> 1]
    /\ cex = [c \in Callers |-> NoExchange]

\* a command as its constructor leaves it, on an exchange with no algo order,
\* no background task and no order at the broker
CmdNew ==
    /\ args = <<>>
    /\ setupErr = ""
    /\ pc = "new"
    /\ order = NoOrder
    /\ lastPrice = 0
    /\ hasTriggered = FALSE
    /\ pendingPrice = 0
    /\ waitTime = minPollingDelay
    /\ lastState = "none"
    /\ algoOrders = {}
    /\ backgroundTasks = {}
    /\ returned = FALSE
    /\ mrtc = [state |-> "none", result |-> "none"]
    /\ brokerStatus = "none"
    /\ nextOrderId = 1
    /\ sessionOrder = NoOrder
    /\ stopCalls = <<>>
    /\ cancelCalls = <<>>
    /\ onCancelledCalls = 0
    /\ pollsSinceCancelSeen = 0
    /\ cancelledAt = "never"

\* no command at all (the specifications of the other components)
CmdUnused ==
    /\ CmdNew
    /\ kind = "none"
    /\ expected = <<>>
    /\ passed = <<>>
    /\ ticker = [bid |-> 1, ask |-> 1, last |-> 1]
    /\ wallet = [asset |-> 0, currency |-> 0]

\* no aggressive entry
AggrUnused ==
    /\ activeOrder = NoOrder
    /\ activePrice = 0
    /\ amountLeft = 0
    /\ currentPrice = 0
    /\ slippagePrice = 0
    /\ expired = FALSE
    /\ orderAmount = 0
    /\ executed = 0
    /\ infoExecuted = 0
    /\ executedBefore = 0
    /\ leftOrders = {}
    /\ exitBy = "none"

\* no command sequence
SeqUnused ==
    /\ actions = <<>>
    /\ next = 1
    /\ seqPc = "none"
    /\ started = <<>>
    /\ inFlight = {}
    /\ thrown = ""
    /\ errorLog = <<>>
    /\ positionSize = 0
    /\ taskLog = <<>>
    /\ waitCalls = 0

\* no stopAndTakeProfitOrder
StpUnused ==
    /\ tpOrder = NoOrder
    /\ slOrder = NoOrder
    /\ tpStatus = "none"
    /\ slStatus = "none"
    /\ limitCalls = <<>>
    /\ observed = "none"

\* no message
MsgUnused ==
    /\ message = <<>>
    /\ credentials = <<>>
    /\ msgPc = "none"
    /\ sent = <<>>
    /\ blocks = <<>>
    /\ blockPc = <<>>
    /\ openCalls = <<>>
    /\ ran = <<>>

defaultsOf(k) ==
    CASE k = "stopMarket" -> StopMarketDefaults
      [] k = "trailingStop" -> TrailingStopDefaults
      [] k = "trailingTakeProfit" -> TrailingTakeProfitDefaults

\* one passed item, or none: opt is <<>> or <<value>>
item(name, opt) == IF opt = <<>> THEN <<>> ELSE (name :> opt[1])

optional(S) == {<<>>} \cup {<<v>> : v \in S}

\* --- the running command ---

FALSESTR == <<"f", "a", "l", "s", "e">>

RunSides == {BUY, <<"S", "e", "l", "l">>}

RunOffsets == {Ticks(1), AbsPrice(1)}

RunPassed ==
    {item("side", <<s>>) @@ item("amount", <<1>>) @@ item("offset", <<o>>)
        @@ item("triggerOffset", <<Ticks(1)>>) @@ item("background", <<b>>) :
     s \in RunSides, o \in RunOffsets, b \in {TRUESTR, FALSESTR}}

\* a stop or trailing command, new
TrailingCommands ==
    /\ MgrIdle
    /\ CmdNew
    /\ AggrUnused
    /\ SeqUnused
    /\ StpUnused
    /\ MsgUnused
    /\ kind \in {"stopMarket", "trailingStop", "trailingTakeProfit"}
    /\ expected = defaultsOf(kind)
    /\ passed \in RunPassed
    /\ ticker \in {t \in Tickers : t.last = t.bid /\ t.ask <= t.bid + 1}
    /\ wallet = [asset |-> MaxAsset, currency |-> MaxPrice * (MaxAmount + MaxAsset)]

InitCmd ==
    /\ NullExchangeDelays
    /\ TrailingCommands

NextCmd ==
    \/ Setup
    \/ AddTaskStop
    \/ AddTaskNoOrder
    \/ ExecuteStopPlaced
    \/ WakeCancelledOrder
    \/ CancelReturns
    \/ WakeCancelledNoOrder
    \/ WakePoll
    \/ TrackOrderDone
    \/ TrackOrderOpen
    \/ TrackNoMove
    \/ TrackMove
    \/ UpdateReturns
    \/ WaitNotCrossed
    \/ WaitCrossed
    \/ TriggerStopOrder
    \/ TriggerStopPlaced
    \/ TickerMoves
    \/ OrderFills
    \/ OrderCloses
    \/ CancelRequest

vars == <<mgrVars, cmdVars, aggrVars, seqVars, stpVars, msgVars, cfgVars>>

\* the manager after construction, with no command in the picture
InitMgr ==
    /\ NullExchangeDelays
    /\ EmptyPool
    /\ CmdUnused
    /\ AggrUnused
    /\ SeqUnused
    /\ StpUnused
    /\ MsgUnused

SpecMgr == InitMgr /\ [][NextMgr]_vars

SpecCmd == InitCmd /\ [][NextCmd]_vars

\* ------------------------------------------------------------------------
\* Properties of the running command (SpecCmd)
\* ------------------------------------------------------------------------

InRegistry == \E o \in algoOrders : o.id = TaskId

\* C2: for a trailing stop, from the initial stop placement on, lastPrice never
\* goes down with side sell and never goes up with side buy, whatever the
\* ticker does.
C2_LastPriceMonotone ==
    [][(kind = "trailingStop" /\ order # NoOrder) =>
          IF args.side = SELL THEN lastPrice' >= lastPrice ELSE lastPrice' <= lastPrice]_vars

\* a sell trailing stop that was moved up, polled again with the market back
\* down (the suggested price is below lastPrice) and left where it was
C2_Witness ==
    /\ kind = "trailingStop"
    /\ pc = "sleep"
    /\ lastState = "keepGoingBackOff"
    /\ args.side = SELL
    /\ lastPrice > args.orderPrice
    /\ offsetToAbsolutePrice(ticker, args.oppositeSide, args.trailingOffset) < lastPrice

\* C3: when the polling loop has obtained Finished and runToCompletion is over,
\* the command is not in the algo registry.
C3_FinishedLeavesRegistry ==
    (kind \in {"trailingStop", "trailingTakeProfit"} /\ pc = "done") => ~InRegistry

\* a foreground trailing stop whose order was filled: backgroundExecute
\* returned Finished, runToCompletion is over and addTask returns
C3_Witness ==
    /\ kind = "trailingStop"
    /\ pc = "done"
    /\ ~args.background
    /\ returned
    /\ brokerStatus = "filled"
    /\ onCancelledCalls = 0
    /\ lastState = "finished"

\* C4: once the loop has seen the cancel flag it calls onCancelled once, calls
\* backgroundExecute no more, takes the command as Finished and stops; a
\* trailing stop (its stop is placed before the loop starts) then has asked the
\* broker exactly once to cancel its current order.
C4_CancelledOnNextWake ==
    /\ onCancelledCalls <= 1
    /\ pollsSinceCancelSeen = 0
    /\ onCancelledCalls = 0 => cancelCalls = <<>>
    /\ onCancelledCalls = 1 =>
          /\ pc \in {"cancelling", "done"}
          /\ pc = "done" => (lastState = "finished" /\ ~InRegistry)
          /\ kind = "trailingStop" => cancelCalls = <<order>>
          /\ order = NoOrder => cancelCalls = <<>>

\* a trailing stop cancelled after its stop was moved: onCancelled has cancelled
\* the moved order, the loop is over
C4_Witness ==
    /\ kind = "trailingStop"
    /\ pc = "done"
    /\ onCancelledCalls = 1
    /\ order > 1
    /\ cancelCalls = <<order>>
    /\ cancelledAt = "requested"


\* what the contract takes for crossed: the highest of bid, ask and last has
\* reached triggerPrice (sell), the lowest has come down to it (buy)
C9_Crossed ==
    IF args.side = SELL
    THEN \E p \in {ticker.bid, ticker.ask, ticker.last} : p >= args.triggerPrice
    ELSE \E p \in {ticker.bid, ticker.ask, ticker.last} : p <= args.triggerPrice

C9_State ==
    kind = "trailingTakeProfit" =>
        /\ Len(stopCalls) <= 1
        /\ ~hasTriggered =>
              /\ stopCalls = <<>>
              /\ order = NoOrder
              /\ pc \notin {"trackOrder", "trackTicker", "updating"}
        /\ (hasTriggered /\ pc = "triggerStop") =>
              stopCalls = <<[amount |-> args.amount,
                             price |-> offsetToAbsolutePrice(ticker, otherSide(args.side),
                                                             args.offset),
                             side |-> args.side,
                             trigger |-> args.trigger]>>
        /\ (hasTriggered /\ pc \notin {"triggerPrice", "triggerStop"}) =>
              /\ Len(stopCalls) = 1
              /\ order # NoOrder
              /\ pc # "waitTicker"

C9_Step ==
    kind = "trailingTakeProfit" =>
        /\ pc = "waitTicker" =>
              /\ pc' = "sleep" => ~C9_Crossed
              /\ hasTriggered' => C9_Crossed
        /\ (pc = "sleep" /\ pc' \notin {"sleep", "cancelling", "done"}) =>
              pc' = IF hasTriggered THEN "trackOrder" ELSE "waitTicker"

\* C9: a trailingTakeProfit places no stop order while it has not seen the
\* watched price cross triggerPrice; the poll that sees it crossed places the
\* one stop order, at the offset price of the opposite side, and every poll
\* after it is the trailing stop's tracking step.
C9_TriggerThenTrail == []C9_State /\ [][C9_Step]_vars

\* a trailingTakeProfit that waited at least one poll, triggered, and whose
\* stop was then moved by a tracking poll
C9_Witness ==
    /\ kind = "trailingTakeProfit"
    /\ pc = "sleep"
    /\ hasTriggered
    /\ Len(stopCalls) = 1
    /\ order > 1
    /\ lastPrice # stopCalls[1].price

\* C10 as stated: a background trailingTakeProfit that is cancelled ends outside
\* the background-task set; cancelled before the market crossed the trigger
\* price, it never places a stop order and never asks the broker to cancel;
\* cancelled after it triggered, it has placed one stop order and asked once to
\* cancel that order.
C10_AsStated ==
    (cancelledAt # "never" /\ kind = "trailingTakeProfit" /\ args.background) =>
        /\ pc = "done" => TaskId \notin backgroundTasks
        /\ cancelledAt = "before" => (stopCalls = <<>> /\ cancelCalls = <<>>)
        /\ (cancelledAt = "triggered" /\ pc = "done") =>
              (Len(stopCalls) = 1 /\ cancelCalls = <<order>>)

\* C10 (amended): a background trailingTakeProfit whose loop has seen the cancel
\* flag ends finished and outside the background-task set; if it had not
\* triggered when the loop saw the flag, no stop order was placed and the broker
\* was not asked to cancel; if it had, one stop order was placed and the broker
\* was asked once to cancel the command's order.
C10_CancelledTakeProfit ==
    (onCancelledCalls >= 1 /\ kind = "trailingTakeProfit" /\ args.background) =>
        /\ pc \in {"cancelling", "done"}
        /\ pc = "done" =>
              (lastState = "finished" /\ TaskId \notin backgroundTasks /\ ~InRegistry)
        /\ ~hasTriggered => (stopCalls = <<>> /\ cancelCalls = <<>>)
        /\ hasTriggered =>
              (Len(stopCalls) = 1 /\ order # NoOrder /\ cancelCalls = <<order>>)

\* a background trailingTakeProfit cancelled while its poll was waiting for the
\* ticker, before the market crossed: the poll saw the price crossed, placed
\* the stop, and the next wake cancelled it
C10_Witness ==
    /\ kind = "trailingTakeProfit"
    /\ pc = "done"
    /\ args.background
    /\ cancelledAt = "before"
    /\ Len(stopCalls) = 1
    /\ cancelCalls = <<order>>
    /\ TaskId \notin backgroundTasks

\* ------------------------------------------------------------------------
\* Argument normalisation on its own: any command, any arguments, then the
\* first steps of the command up to its first broker order
\* ------------------------------------------------------------------------

\* defaults of commands that call ExchangeCommand.prepareArguments as it is
BaseDefaults ==
    { [side |-> BUY, trigger |-> MARK],
      [side |-> BUY, amount |-> 0, position |-> <<>>],
      [side |-> BUY, amount |-> 0, offset |-> Ticks(0)],
      [trigger |-> MARK, background |-> FALSESTR] }

SideInputs == {<<"B", "u", "y">>, <<"S", "E", "L", "L">>, <<"f", "i", "s", "h">>}

TriggerInputs == {<<"I", "n", "d", "e", "x">>, <<"f", "i", "s", "h">>}

ArgsPassed ==
    {item("side", s) @@ item("trigger", t) @@ item("amount", am) @@ item("position", po)
        @@ item("offset", o) :
     s \in optional(SideInputs), t \in optional(TriggerInputs),
     am \in optional(0..MaxAmount), po \in optional({<<n>> : n \in 0..MaxAsset}),
     o \in optional({Ticks(1), AbsPrice(2)})}

InitArgs ==
    /\ NullExchangeDelays
    /\ MgrIdle
    /\ CmdNew
    /\ AggrUnused
    /\ SeqUnused
    /\ StpUnused
    /\ MsgUnused
    /\ kind \in {"stopMarket", "trailingStop", "trailingTakeProfit", "command"}
    /\ expected \in IF kind = "command" THEN BaseDefaults ELSE {defaultsOf(kind)}
    /\ passed \in ArgsPassed
    /\ ticker \in {t \in Tickers : t.ask <= t.bid + 1 /\ t.last = t.bid /\ t.bid >= MaxPrice - 1}
    /\ wallet \in Wallets

NextArgs ==
    \/ Setup
    \/ AddTaskStop
    \/ AddTaskNoOrder
    \/ ExecuteStopPlaced

SpecArgs == InitArgs /\ [][NextArgs]_vars

\* setup() has run
SetupDone == pc # "new"

\* the arguments prepareArguments starts from
C_Given == assignParams(expected, passed)

\* C7: after a successful prepareArguments with a side, side is buy or sell and
\* oppositeSide is the other one, also when the target position decided the
\* side; a side that is neither (in any case of letters) fails the command with
\* 'side must be buy or sell', and no other side does.
C7_SideNormalised ==
    (SetupDone /\ hasArg(C_Given, "side")) =>
        /\ setupErr = "" =>
              /\ args.side \in {BUY, SELL}
              /\ args.oppositeSide \in {BUY, SELL} \ {args.side}
        /\ (setupErr = ErrSide) <=> (toLowerCase(C_Given.side) \notin {BUY, SELL})

\* a command given side buy and a target position below what the wallet
\* holds: the position makes it a sell, oppositeSide follows
C7_Witness ==
    /\ SetupDone
    /\ setupErr = ""
    /\ hasArg(passed, "position")
    /\ toLowerCase(C_Given.side) = BUY
    /\ C_Given.side # BUY
    /\ args.side = SELL
    /\ args.oppositeSide = BUY

\* the trigger the contract asks for: the given one in lower case if that is
\* mark, index or last, else last
C8_Expected ==
    IF toLowerCase(C_Given.trigger) \in {MARK, INDEX, LAST}
    THEN toLowerCase(C_Given.trigger) ELSE LAST

\* C8: once prepareArguments has got past the side, trigger is the given
\* trigger in lower case if that is mark, index or last, and last otherwise;
\* the trigger never fails the command (it fails exactly as it does with
\* trigger mark).
C8_TriggerNormalised ==
    (SetupDone /\ hasArg(C_Given, "trigger")) =>
        /\ setupErr # ErrSide => args.trigger = C8_Expected
        /\ setupErr =
              setup(kind, expected, setArg(passed, "trigger", MARK), ticker, wallet).err

\* a command given the trigger 'fish' that was set up without error, trigger last
C8_Witness ==
    /\ SetupDone
    /\ setupErr = ""
    /\ hasArg(passed, "trigger")
    /\ toLowerCase(passed.trigger) \notin {MARK, INDEX, LAST}
    /\ args.trigger = LAST

\* the side prepareArguments works with before the position is looked at
C6_Side == toLowerCase(C_Given.side)

\* the side and amount after the position adjustment (as given, when the
\* command has no position argument)
C6_Positioned ==
    IF hasArg(C_Given, "position")
    THEN positionToAmount(wallet, C_Given.position, C6_Side, C_Given.amount)
    ELSE [side |-> C6_Side, amount |-> C_Given.amount]

\* the amount after clamping to the balance (only with an offset, that is, a price)
C6_Clamped ==
    IF hasArg(C_Given, "offset")
    THEN orderSizeFromAmount(
             wallet, C6_Positioned.side,
             offsetToAbsolutePrice(ticker, C6_Positioned.side, C_Given.offset),
             C6_Positioned.amount).orderSize
    ELSE C6_Positioned.amount

\* the computed amount is 0: by the position adjustment, or by the clamping
C6_ZeroAmount ==
    \/ hasArg(C_Given, "position") /\ C6_Positioned.amount = 0
    \/ hasArg(C_Given, "offset") /\ C6_Clamped = 0

\* C6: a command with a valid side and an amount whose computed amount is 0
\* fails in setup with 'No funds available or order size is 0' and places no
\* broker order; an order that is placed never has amount 0.
C6_ZeroSizeFailsBeforeOrder ==
    /\ (/\ SetupDone
        /\ hasArg(C_Given, "side") /\ hasArg(C_Given, "amount")
        /\ C6_Side \in {BUY, SELL}
        /\ C6_ZeroAmount)
          => (setupErr = ErrZeroSize /\ pc = "setupFailed" /\ stopCalls = <<>>)
    /\ setupErr # "" => (pc = "setupFailed" /\ stopCalls = <<>>)
    /\ \A i \in 1..Len(stopCalls) : stopCalls[i].amount > 0

\* a stop asked to buy more than nothing with a wallet that has no currency:
\* the position leaves the amount, the clamping takes it to 0
C6_Witness ==
    /\ pc = "setupFailed"
    /\ setupErr = ErrZeroSize
    /\ kind = "stopMarket"
    /\ C6_Side = BUY
    /\ C6_Positioned.amount > 0
    /\ C6_Clamped = 0
    /\ wallet.currency = 0

\* ------------------------------------------------------------------------
\* aggressiveEntry (exchanges/commands/algo/aggressive_entry.js)
\* ------------------------------------------------------------------------

ErrZeroSizeAggr == "No funds available or order size is zero"

\* the orders one entry is followed through
MaxOrders == 2

\* the defaults of aggressiveEntry: timeLimit in seconds (0: none),
\* slippageLimit <<>> (none) or <<offset>>
AggrDefaults ==
    [side |-> BUY, amount |-> 0, position |-> <<>>, timeLimit |-> 0, slippageLimit |-> <<>>]

\* getCurrentPrice(context, side)
getCurrentPrice(tk, side) == IF side = BUY THEN tk.bid ELSE tk.ask

\* what the cmd variables an aggressive entry does not use keep
aggrFrame == <<mgrVars, seqVars, stpVars, msgVars, cfgVars, kind, expected, passed, wallet, order, lastPrice, hasTriggered,
               pendingPrice, lastState, backgroundTasks, mrtc, sessionOrder, stopCalls,
               onCancelledCalls, pollsSinceCancelSeen, cancelledAt>>

\* an exit that returns at once and leaves the active order at the broker
earlyExitKeepsOrder(by) ==
    /\ exitBy' = by
    /\ pc' = "aeReturned"
    /\ returned' = TRUE
    /\ UNCHANGED cancelCalls

\* earlyExit(ex, activeOrder, msg): with an active order the broker is asked to
\* cancel it, then {} is returned
earlyExit(by) ==
    /\ exitBy' = by
    /\ IF activeOrder # NoOrder
       THEN /\ cancelCalls' = Append(cancelCalls, activeOrder)
            /\ pc' = "aeExitCancel"
            /\ UNCHANGED returned
       ELSE /\ pc' = "aeReturned"
            /\ returned' = TRUE
            /\ UNCHANGED cancelCalls

\* the entry up to its loop: a bad side and a size of zero reject, an amount of
\* zero returns at once; otherwise the algo order is registered
AggrStart ==
    /\ kind = "aggressiveEntry"
    /\ pc = "new"
    /\ LET p == assignParams(expected, passed)
           pside == toLowerCase(p.side)
           modifiedPosition == positionToAmount(wallet, p.position, pside, p.amount)
           side == modifiedPosition.side
           slippageSide == IF side = BUY THEN SELL ELSE BUY
           orderPrice == offsetToAbsolutePrice(ticker, side, Ticks(0))
           details == orderSizeFromAmount(wallet, side, orderPrice, modifiedPosition.amount)
       IN /\ args' = [p EXCEPT !.side = IF pside \in {BUY, SELL} THEN side ELSE pside]
          /\ IF pside # BUY /\ pside # SELL
             THEN /\ pc' = "aeRejected"
                  /\ setupErr' = ErrSide
                  /\ UNCHANGED <<algoOrders, amountLeft, slippagePrice, exitBy>>
             ELSE IF modifiedPosition.amount = 0
             THEN /\ pc' = "aeReturned"
                  /\ exitBy' = "nothing"
                  /\ UNCHANGED <<algoOrders, amountLeft, slippagePrice, setupErr>>
             ELSE IF details.orderSize = 0
             THEN /\ pc' = "aeRejected"
                  /\ setupErr' = ErrZeroSizeAggr
                  /\ UNCHANGED <<algoOrders, amountLeft, slippagePrice, exitBy>>
             ELSE /\ pc' = "aeLoop"
                  /\ algoOrders' = startAlgoOrder(algoOrders, TaskId)
                  /\ amountLeft' = details.orderSize
                  /\ slippagePrice' =
                        IF p.slippageLimit = <<>> THEN 0
                        ELSE offsetToAbsolutePrice(ticker, slippageSide, p.slippageLimit[1])
                  /\ UNCHANGED <<setupErr, exitBy>>
    /\ returned' = (pc' # "aeLoop")
    /\ waitTime' = minPollingDelay
    /\ UNCHANGED <<aggrFrame, ticker, brokerStatus, nextOrderId, cancelCalls, activeOrder,
                   activePrice, currentPrice, expired, orderAmount, executed, infoExecuted, executedBefore, leftOrders>>

\* what no step of the entry's loop changes
aggrLoopFrame == <<aggrFrame, ticker, args, setupErr, slippagePrice, expired>>

\* the loop ends: nothing is left to order
AggrComplete ==
    /\ pc = "aeLoop"
    /\ ~(amountLeft >= MinOrderSize)
    /\ algoOrders' = endAlgoOrder(algoOrders, TaskId)
    /\ pc' = "aeReturned"
    /\ returned' = TRUE
    /\ exitBy' = "filled"
    /\ UNCHANGED <<aggrLoopFrame, waitTime, brokerStatus, nextOrderId, cancelCalls,
                   activeOrder, activePrice, amountLeft, currentPrice, orderAmount, executed, infoExecuted, executedBefore, leftOrders>>

\* the loop finds the algo order cancelled
AggrSeesCancel ==
    /\ pc = "aeLoop"
    /\ amountLeft >= MinOrderSize
    /\ isAlgoOrderCancelled(algoOrders, TaskId)
    /\ earlyExit("cancelled")
    /\ UNCHANGED <<aggrLoopFrame, waitTime, algoOrders, brokerStatus, nextOrderId,
                   activeOrder, activePrice, amountLeft, currentPrice, orderAmount, executed, infoExecuted, executedBefore, leftOrders>>

\* an entry that does not look at the clock
timeLimitReachedNever(timeLimit, isExpired) == FALSE

\* p.timeLimit > 0 && expiryTime < Date.now()
timeLimitReached(timeLimit, isExpired) == timeLimit > 0 /\ isExpired

\* the loop finds the time limit passed
AggrTimeLimit ==
    /\ pc = "aeLoop"
    /\ amountLeft >= MinOrderSize
    /\ ~isAlgoOrderCancelled(algoOrders, TaskId)
    /\ timeLimitReached(args.timeLimit, expired)
    /\ earlyExit("timeLimit")
    /\ UNCHANGED <<aggrLoopFrame, waitTime, algoOrders, brokerStatus, nextOrderId,
                   activeOrder, activePrice, amountLeft, currentPrice, orderAmount, executed, infoExecuted, executedBefore, leftOrders>>

\* the loop goes on and asks for the current price
AggrAskPrice ==
    /\ pc = "aeLoop"
    /\ amountLeft >= MinOrderSize
    /\ ~isAlgoOrderCancelled(algoOrders, TaskId)
    /\ ~timeLimitReached(args.timeLimit, expired)
    /\ pc' = "aePrice"
    /\ UNCHANGED <<aggrLoopFrame, waitTime, algoOrders, brokerStatus, nextOrderId,
                   cancelCalls, returned, activeOrder, activePrice, amountLeft, currentPrice,
                   orderAmount, executed, infoExecuted, executedBefore, leftOrders, exitBy>>

\* a test of the price that does not look whether a limit was given
hasSlippedTooFarAnyLimit(side, price, limit, limitPrice) ==
    \/ side = BUY /\ price > limitPrice
    \/ side = SELL /\ price < limitPrice

\* the price has slipped beyond the slippage limit
hasSlippedTooFar(side, price, limit, limitPrice) ==
    /\ limit # <<>>
    /\ \/ side = BUY /\ price > limitPrice
       \/ side = SELL /\ price < limitPrice

\* getCurrentPrice resolved and the price has slipped too far
AggrSlipped ==
    /\ pc = "aePrice"
    /\ hasSlippedTooFar(args.side, getCurrentPrice(ticker, args.side), args.slippageLimit,
                        slippagePrice)
    /\ currentPrice' = getCurrentPrice(ticker, args.side)
    /\ earlyExit("slippage")
    /\ UNCHANGED <<aggrLoopFrame, waitTime, algoOrders, brokerStatus, nextOrderId,
                   activeOrder, activePrice, amountLeft, orderAmount, executed, infoExecuted, executedBefore, leftOrders>>

\* getCurrentPrice resolved: with no active order one is placed, else the
\* broker is asked for the active order
AggrPriced ==
    /\ pc = "aePrice"
    /\ ~hasSlippedTooFar(args.side, getCurrentPrice(ticker, args.side), args.slippageLimit,
                         slippagePrice)
    /\ currentPrice' = getCurrentPrice(ticker, args.side)
    /\ pc' = IF activeOrder = NoOrder THEN "aePlacing" ELSE "aeOrderQuery"
    /\ UNCHANGED <<aggrLoopFrame, waitTime, algoOrders, brokerStatus, nextOrderId,
                   cancelCalls, returned, activeOrder, activePrice, amountLeft, orderAmount, executed, infoExecuted, executedBefore, leftOrders,
                   exitBy>>

\* placeOrderAtTop resolved: a post-only limit order for what is left stands at
\* the price asked for first, or at the top of the book of a later attempt
AggrPlaced ==
    /\ pc = "aePlacing"
    /\ nextOrderId <= MaxOrders
    /\ activeOrder' = nextOrderId
    /\ nextOrderId' = nextOrderId + 1
    /\ brokerStatus' = "open"
    /\ orderAmount' = amountLeft
    /\ executed' = 0
    /\ executedBefore' = executedBefore + executed
    /\ activePrice' \in {currentPrice, getCurrentPrice(ticker, args.side)}
    /\ waitTime' = minPollingDelay + 2
    /\ pc' = "aeWait"
    /\ UNCHANGED <<aggrLoopFrame, algoOrders, cancelCalls, returned, amountLeft,
                   currentPrice, infoExecuted, leftOrders, exitBy>>

\* what an attempt of placeOrderAtTop that goes round again leaves alone
aggrRetryFrame == <<aggrLoopFrame, pc, waitTime, algoOrders, brokerStatus, cancelCalls,
                    returned, activeOrder, activePrice, amountLeft, currentPrice, orderAmount,
                    executed, infoExecuted, executedBefore, exitBy>>

\* a further attempt is followed as long as the orders it can lead to are
\* within MaxOrders: there is room for the next order, and the book stands
\* where the iteration read it, so that order will not have to be moved
AttemptFollowed ==
    /\ nextOrderId < MaxOrders
    /\ currentPrice = getCurrentPrice(ticker, args.side)

\* placeOrderAtTop: the order of this attempt is shown neither open nor filled
\* (a post-only order the broker turned down); the next attempt follows
AggrPlaceRejected ==
    /\ pc = "aePlacing"
    /\ AttemptFollowed
    /\ nextOrderId' = nextOrderId + 1
    /\ UNCHANGED <<aggrRetryFrame, leftOrders>>

\* placeOrderAtTop: api.order stays null through its ten reads; the attempt is
\* given up with the order where it is (open at the broker, or not there) and
\* the next attempt follows
AggrPlaceUnread ==
    /\ pc = "aePlacing"
    /\ AttemptFollowed
    /\ nextOrderId' = nextOrderId + 1
    /\ \E live \in BOOLEAN :
          leftOrders' = IF live
                        THEN leftOrders \cup {[id |-> nextOrderId, amount |-> amountLeft]}
                        ELSE leftOrders
    /\ UNCHANGED aggrRetryFrame

\* api.order: the broker does not show the order yet
AggrInfoNull ==
    /\ pc = "aeOrderQuery"
    /\ brokerStatus = "open"
    /\ pc' = "aeWait"
    /\ UNCHANGED <<aggrLoopFrame, waitTime, algoOrders, brokerStatus, nextOrderId,
                   cancelCalls, returned, activeOrder, activePrice, amountLeft, currentPrice,
                   orderAmount, executed, infoExecuted, executedBefore, leftOrders, exitBy>>

\* api.order: the order is filled
AggrInfoFilled ==
    /\ pc = "aeOrderQuery"
    /\ brokerStatus = "filled"
    /\ amountLeft' = amountLeft - executed
    /\ activeOrder' = NoOrder
    /\ waitTime' = minPollingDelay
    /\ pc' = "aeWait"
    /\ UNCHANGED <<aggrLoopFrame, algoOrders, brokerStatus, nextOrderId, cancelCalls,
                   returned, activePrice, currentPrice, orderAmount, executed, infoExecuted, executedBefore, leftOrders,
                   exitBy>>

\* api.order: the order is neither filled nor open; the entry returns
AggrInfoClosed ==
    /\ pc = "aeOrderQuery"
    /\ brokerStatus = "closed"
    /\ pc' = "aeReturned"
    /\ returned' = TRUE
    /\ exitBy' = "closed"
    /\ UNCHANGED <<aggrLoopFrame, waitTime, algoOrders, brokerStatus, nextOrderId,
                   cancelCalls, activeOrder, activePrice, amountLeft, currentPrice,
                   orderAmount, executed, infoExecuted, executedBefore, leftOrders>>

\* api.order: the order is open and no longer at the top of the book; the
\* broker is asked to cancel it
AggrInfoMove ==
    /\ pc = "aeOrderQuery"
    /\ brokerStatus = "open"
    /\ activePrice # currentPrice
    /\ cancelCalls' = Append(cancelCalls, activeOrder)
    /\ infoExecuted' = executed
    /\ pc' = "aeMoving"
    /\ UNCHANGED <<aggrLoopFrame, waitTime, algoOrders, brokerStatus, nextOrderId,
                   returned, activeOrder, activePrice, amountLeft, currentPrice,
                   orderAmount, executed, executedBefore, leftOrders, exitBy>>

\* api.order: the order is open and at the top of the book
AggrInfoStay ==
    /\ pc = "aeOrderQuery"
    /\ brokerStatus = "open"
    /\ activePrice = currentPrice
    /\ pc' = "aeWait"
    /\ UNCHANGED <<aggrLoopFrame, waitTime, algoOrders, brokerStatus, nextOrderId,
                   cancelCalls, returned, activeOrder, activePrice, amountLeft, currentPrice,
                   orderAmount, executed, infoExecuted, executedBefore, leftOrders, exitBy>>

\* a move that forgets what the cancelled order had executed
AggrMovedKeepsAmount ==
    /\ pc = "aeMoving"
    /\ brokerStatus' = IF brokerStatus = "open" THEN "closed" ELSE brokerStatus
    /\ activeOrder' = NoOrder
    /\ activePrice' = 0
    /\ waitTime' = minPollingDelay
    /\ pc' = "aeWait"
    /\ UNCHANGED <<aggrLoopFrame, algoOrders, nextOrderId, cancelCalls, returned,
                   amountLeft, currentPrice, orderAmount, executed, infoExecuted, executedBefore, leftOrders, exitBy>>

\* api.cancelOrders of the move resolved: what the answer of api.order gave
\* as executed is taken off amountLeft
AggrMoved ==
    /\ pc = "aeMoving"
    /\ brokerStatus' = IF brokerStatus = "open" THEN "closed" ELSE brokerStatus
    /\ amountLeft' = amountLeft - infoExecuted
    /\ activeOrder' = NoOrder
    /\ activePrice' = 0
    /\ waitTime' = minPollingDelay
    /\ pc' = "aeWait"
    /\ UNCHANGED <<aggrLoopFrame, algoOrders, nextOrderId, cancelCalls, returned,
                   currentPrice, orderAmount, executed, infoExecuted, executedBefore, leftOrders, exitBy>>

\* waitSeconds(waitTime) is over
AggrWake ==
    /\ pc = "aeWait"
    /\ waitTime' = IF waitTime < maxPollingDelay THEN waitTime + 1 ELSE waitTime
    /\ pc' = "aeLoop"
    /\ UNCHANGED <<aggrLoopFrame, algoOrders, brokerStatus, nextOrderId, cancelCalls,
                   returned, activeOrder, activePrice, amountLeft, currentPrice,
                   orderAmount, executed, infoExecuted, executedBefore, leftOrders, exitBy>>

\* api.cancelOrders of earlyExit resolved: {} is returned
AggrExitCancelled ==
    /\ pc = "aeExitCancel"
    /\ brokerStatus' = IF brokerStatus = "open" THEN "closed" ELSE brokerStatus
    /\ pc' = "aeReturned"
    /\ returned' = TRUE
    /\ UNCHANGED <<aggrLoopFrame, waitTime, algoOrders, nextOrderId, cancelCalls,
                   activeOrder, activePrice, amountLeft, currentPrice, orderAmount, executed, infoExecuted, executedBefore, leftOrders, exitBy>>

\* the entry is in its loop
AggrRunning == pc \in {"aeLoop", "aePrice", "aePlacing", "aeOrderQuery", "aeMoving",
                       "aeWait", "aeExitCancel"}

aggrEnvFrame == <<aggrLoopFrame, pc, waitTime, algoOrders, nextOrderId, cancelCalls,
                  returned, activeOrder, activePrice, amountLeft, currentPrice,
                  orderAmount, infoExecuted, executedBefore, leftOrders, exitBy>>

\* the broker fills the active order
AggrOrderFills ==
    /\ AggrRunning
    /\ brokerStatus = "open"
    /\ brokerStatus' = "filled"
    /\ executed' = orderAmount
    /\ UNCHANGED aggrEnvFrame

\* the broker fills a part of the active order, which stays open
AggrOrderPartFills ==
    /\ AggrRunning
    /\ brokerStatus = "open"
    /\ activeOrder # NoOrder
    /\ executed' \in (executed + 1)..(orderAmount - 1)
    /\ UNCHANGED <<aggrEnvFrame, brokerStatus>>

\* the active order is closed at the broker without a fill
AggrOrderCloses ==
    /\ AggrRunning
    /\ brokerStatus = "open"
    /\ brokerStatus' = "closed"
    /\ UNCHANGED <<aggrEnvFrame, executed>>

aggrLeftFrame == <<aggrLoopFrame, pc, waitTime, algoOrders, brokerStatus, nextOrderId,
                   cancelCalls, returned, activeOrder, activePrice, amountLeft, currentPrice,
                   orderAmount, executed, infoExecuted, exitBy>>

\* the broker fills an order placeOrderAtTop went on from
LeftOrderFills ==
    \E o \in leftOrders :
        /\ leftOrders' = leftOrders \ {o}
        /\ executedBefore' = executedBefore + o.amount
        /\ UNCHANGED aggrLeftFrame

\* such an order is closed at the broker without a fill
LeftOrderCloses ==
    \E o \in leftOrders :
        /\ leftOrders' = leftOrders \ {o}
        /\ UNCHANGED <<aggrLeftFrame, executedBefore>>

\* the top of the book moves before the price the entry asked for is answered
\* (the entry reads the bid for a buy and the ask for a sell: the book is
\* followed with no spread). The moves are followed as long as the
\* orders they can lead to are within MaxOrders.
AggrBookMoves ==
    /\ \/ pc = "aePrice" /\ nextOrderId <= MaxOrders
       \/ pc = "aePlacing" /\ nextOrderId < MaxOrders
    /\ ticker' \in {t \in Tickers : t.last = t.bid /\ t.ask = t.bid} \ {ticker}
    /\ UNCHANGED <<aggrFrame, args, setupErr, slippagePrice, expired, pc, waitTime,
                   algoOrders, brokerStatus, nextOrderId, cancelCalls, returned,
                   activeOrder, activePrice, amountLeft, currentPrice, orderAmount, executed, infoExecuted, executedBefore, leftOrders, exitBy>>

\* the clock passes expiryTime
ClockExpires ==
    /\ AggrRunning
    /\ args.timeLimit > 0
    /\ ~expired
    /\ expired' = TRUE
    /\ UNCHANGED <<aggrFrame, ticker, args, setupErr, slippagePrice, pc, waitTime,
                   algoOrders, brokerStatus, nextOrderId, cancelCalls, returned,
                   activeOrder, activePrice, amountLeft, currentPrice, orderAmount, executed, infoExecuted, executedBefore, leftOrders, exitBy>>

AggrPassed ==
    {item("side", <<s>>) @@ item("amount", <<am>>) @@ item("timeLimit", <<tl>>)
        @@ item("slippageLimit", <<sl>>) :
     s \in RunSides, am \in 1..MaxAmount, tl \in {0, 1},
     sl \in {<<>>, <<Ticks(0)>>, <<Ticks(1)>>}}

\* an aggressive entry, new
AggressiveEntries ==
    /\ MgrIdle
    /\ CmdNew
    /\ AggrUnused
    /\ SeqUnused
    /\ StpUnused
    /\ MsgUnused
    /\ kind = "aggressiveEntry"
    /\ expected = AggrDefaults
    /\ passed \in AggrPassed
    /\ ticker \in {t \in Tickers : t.last = t.bid /\ t.ask = t.bid /\ t.bid >= MaxPrice - 1}
    /\ wallet = [asset |-> MaxAsset, currency |-> MaxPrice * (MaxAmount + MaxAsset)]

InitAggr ==
    /\ NullExchangeDelays
    /\ AggressiveEntries

NextAggr ==
    \/ AggrStart
    \/ AggrComplete
    \/ AggrSeesCancel
    \/ AggrTimeLimit
    \/ AggrAskPrice
    \/ AggrSlipped
    \/ AggrPriced
    \/ AggrPlaced
    \/ AggrPlaceRejected
    \/ AggrPlaceUnread
    \/ AggrInfoNull
    \/ AggrInfoFilled
    \/ AggrInfoClosed
    \/ AggrInfoMove
    \/ AggrInfoStay
    \/ AggrMoved
    \/ AggrWake
    \/ AggrExitCancelled
    \/ AggrOrderFills
    \/ AggrOrderPartFills
    \/ AggrOrderCloses
    \/ LeftOrderFills
    \/ LeftOrderCloses
    \/ ClockExpires
    \/ AggrBookMoves
    \/ CancelRequest

SpecAggr == InitAggr /\ [][NextAggr]_vars

\* C5: an aggressiveEntry that registered an algo-order entry and has returned,
\* by whatever path, has no entry in the algo registry.
C5_ReturnedLeavesRegistry ==
    (kind = "aggressiveEntry" /\ pc = "aeReturned") => ~InRegistry

\* ------------------------------------------------------------------------
\* maybeRunToCompletion and the foreground
\* ------------------------------------------------------------------------

\* C11: maybeRunToCompletion gives back the state it was given when that state
\* is Finished or when the command can complete in the background, and addTask
\* returns at once; for a state that is not Finished and a command that cannot
\* complete in the background it gives back Finished, and it has not returned
\* before the polling loop obtained Finished and ended.
C11_RunToCompletion ==
    (mrtc.state # "none") =>
        /\ (mrtc.state = "finished" \/ canCompleteInBackground) =>
              (returned /\ mrtc.result = mrtc.state)
        /\ (mrtc.state # "finished" /\ ~canCompleteInBackground) =>
              /\ mrtc.result \in {"none", "finished"}
              /\ returned <=> mrtc.result = "finished"
              /\ returned <=> (pc = "done" /\ lastState = "finished")
              /\ TaskId \notin backgroundTasks

\* a foreground trailing stop given KeepGoing: polled until its order was
\* filled, then maybeRunToCompletion returned Finished
C11_Witness ==
    /\ kind = "trailingStop"
    /\ mrtc = [state |-> "keepGoing", result |-> "finished"]
    /\ ~args.background
    /\ returned
    /\ pc = "done"
    /\ brokerStatus = "filled"

\* ------------------------------------------------------------------------
\* Conditions (commands/conditional.js) and the commands continueIf, stopIf
\* ------------------------------------------------------------------------

ALWAYS == <<"a", "l", "w", "a", "y", "s">>

NEVER == <<"n", "e", "v", "e", "r">>

POSITIONLESSTHAN ==
    <<"p", "o", "s", "i", "t", "i", "o", "n", "l", "e", "s", "s", "t", "h", "a", "n">>

POSITIONGREATERTHAN ==
    <<"p", "o", "s", "i", "t", "i", "o", "n", "g", "r", "e", "a", "t", "e", "r", "t", "h", "a", "n">>

POSITIONLONG == <<"p", "o", "s", "i", "t", "i", "o", "n", "l", "o", "n", "g">>

POSITIONSHORT == <<"p", "o", "s", "i", "t", "i", "o", "n", "s", "h", "o", "r", "t">>

POSITIONNONE == <<"p", "o", "s", "i", "t", "i", "o", "n", "n", "o", "n", "e">>

PRICELESSTHAN == <<"p", "r", "i", "c", "e", "l", "e", "s", "s", "t", "h", "a", "n">>

PRICEGREATERTHAN ==
    <<"p", "r", "i", "c", "e", "g", "r", "e", "a", "t", "e", "r", "t", "h", "a", "n">>

\* a test gives <<>> for null, <<b>> for the boolean b. A value is <<>> for
\* a text parseFloat makes NaN of (every comparison with it is false), <<n>>
\* for the number n.
simpleConditions(condition) ==
    IF condition \in {ALWAYS, TRUESTR} THEN <<TRUE>>
    ELSE IF condition \in {NEVER, FALSESTR} THEN <<FALSE>>
    ELSE <<>>

positionConditions(condition, value, pos) ==
    IF condition = POSITIONLESSTHAN THEN <<value # <<>> /\ pos < value[1]>>
    ELSE IF condition = POSITIONGREATERTHAN THEN <<value # <<>> /\ pos > value[1]>>
    ELSE IF condition = POSITIONLONG THEN <<pos > 0>>
    ELSE IF condition = POSITIONSHORT THEN <<pos < 0>>
    ELSE IF condition = POSITIONNONE THEN <<pos = 0>>
    ELSE <<>>

\* the price is (bid + ask) / 2: both sides of the comparison are doubled
lastPriceConditions(condition, value, tk) ==
    IF condition = PRICELESSTHAN THEN <<value # <<>> /\ tk.bid + tk.ask < 2 * value[1]>>
    ELSE IF condition = PRICEGREATERTHAN
    THEN <<value # <<>> /\ tk.bid + tk.ask > 2 * value[1]>>
    ELSE <<>>

\* conditional(context, condition, value): the first test that knows the
\* condition decides, a condition no test knows is false. (The date and time
\* tests read the clock; none of the conditions used here is one of theirs,
\* so they give null.)
conditional(condition, value, pos, tk) ==
    IF simpleConditions(condition) # <<>> THEN simpleConditions(condition)[1]
    ELSE IF positionConditions(condition, value, pos) # <<>>
    THEN positionConditions(condition, value, pos)[1]
    ELSE IF lastPriceConditions(condition, value, tk) # <<>>
    THEN lastPriceConditions(condition, value, tk)[1]
    ELSE FALSE

\* classes of the errors a command throws
AbortSequenceError == "AbortSequenceError"

PlainError == "Error"

ConditionalDefaults == [if |-> ALWAYS, value |-> <<>>]

\* continueIf: test() throws when the condition does not hold ("" if nothing
\* is thrown)
continueIfRaises(given, pos, tk) ==
    LET p == assignParams(ConditionalDefaults, given)
    IN IF ~conditional(toLowerCase(p.if), p.value, pos, tk) THEN AbortSequenceError ELSE ""

\* stopIf: test() throws when the condition holds
stopIfRaises(given, pos, tk) ==
    LET p == assignParams(ConditionalDefaults, given)
    IN IF conditional(toLowerCase(p.if), p.value, pos, tk) THEN PlainError ELSE ""

\* ------------------------------------------------------------------------
\* ExchangeManager.executeMessage for one block, on an open exchange:
\* addSymbol, executeCommandSequence, and the scheduling of closeExchange
\* ------------------------------------------------------------------------

MaxActions == 3

ErrStopped == "Command sequence stopped. Waiting for background tasks to complete."

\* a sequence runner that goes on to the next action without awaiting the last
canInvokeWhileRunning(where) == where \in {"loop", "inCommand"}

\* for (const action of actions) { await exchange.executeCommand(...) }: the
\* next action is taken up when the loop is at its top
canInvoke(where) == where = "loop"

\* a catch block that returns at once
afterSequenceNoWaitOnError(err) == IF err = "" THEN "waiting" ELSE "returned"

\* where executeCommandSequence goes when its try block is left, normally
\* (err = "") or through the catch: to waitForBackgroundTasks
afterSequence(err) == "waiting"

\* the catch block: what it logs for an error of class cls with message msg
catchLogs(cls, msg) == <<ErrStopped, msg>>

\* a catch block that cancels the session's algo orders
registryAfterCatchCancels(reg) == cancelSessionAlgoOrders(reg)

\* the catch block leaves the algo registry as it is
registryAfterCatch(reg) == reg

\* a wait that returns while tasks are still running
tasksDrainedAlways(tasks) == TRUE

\* waitForBackgroundTasks returns once no background task is left
tasksDrained(tasks) == tasks = {}

\* what no step of a block changes
seqFrame == <<mgrVars, aggrVars, stpVars, msgVars, cfgVars, kind, expected, passed, ticker, wallet, args, setupErr, pc,
              order, lastPrice, hasTriggered, pendingPrice, waitTime, lastState, returned,
              mrtc, brokerStatus, nextOrderId, sessionOrder, stopCalls, cancelCalls,
              onCancelledCalls, pollsSinceCancelSeen, cancelledAt, actions, positionSize>>

\* await exchange.addSymbol(item.symbol) resolved
AddSymbolOk ==
    /\ seqPc = "addSymbol"
    /\ seqPc' = "loop"
    /\ UNCHANGED <<seqFrame, algoOrders, backgroundTasks, next, started, inFlight, thrown,
                   errorLog, taskLog, waitCalls>>

\* addSymbol rejected: executeMessage logs it and, in its finally, schedules
\* closeExchange; the sequence is never run
AddSymbolFails ==
    /\ seqPc = "addSymbol"
    /\ errorLog' = Append(errorLog, "Error - addSymbol")
    /\ seqPc' = "closeScheduled"
    /\ UNCHANGED <<seqFrame, algoOrders, backgroundTasks, next, started, inFlight, thrown,
                   taskLog, waitCalls>>

\* the for loop takes up the next action: exchange.executeCommand is invoked
Invoke ==
    /\ canInvoke(seqPc)
    /\ next <= Len(actions)
    /\ started' = Append(started, next)
    /\ inFlight' = inFlight \cup {next}
    /\ seqPc' = "inCommand"
    /\ UNCHANGED <<seqFrame, algoOrders, backgroundTasks, next, thrown, errorLog, taskLog,
                   waitCalls>>

\* executeCommand resolved: the loop goes on with the next action
Return ==
    /\ inFlight' = inFlight \ {next}
    /\ next' = next + 1
    /\ seqPc' = "loop"
    /\ UNCHANGED <<seqFrame, started, thrown, errorLog, waitCalls>>

\* executeCommand rejected with an error of class cls: the catch block logs
\* and the sequence goes on to waitForBackgroundTasks
Throw(cls, msg) ==
    /\ inFlight' = inFlight \ {next}
    /\ thrown' = cls
    /\ errorLog' = errorLog \o catchLogs(cls, msg)
    /\ algoOrders' = registryAfterCatch(algoOrders)
    /\ seqPc' = afterSequence(cls)
    /\ waitCalls' = IF afterSequence(cls) = "waiting" THEN waitCalls + 1 ELSE waitCalls
    /\ UNCHANGED <<seqFrame, backgroundTasks, next, started, taskLog>>

\* continueIf or stopIf whose test does not throw
ConditionalPasses ==
    /\ seqPc = "inCommand"
    /\ \/ /\ actions[next].name = "continueIf"
          /\ continueIfRaises(actions[next].params, positionSize, ticker) = ""
       \/ /\ actions[next].name = "stopIf"
          /\ stopIfRaises(actions[next].params, positionSize, ticker) = ""
    /\ Return
    /\ UNCHANGED <<algoOrders, backgroundTasks, taskLog>>

\* continueIf whose test throws
ContinueIfStops ==
    /\ seqPc = "inCommand"
    /\ actions[next].name = "continueIf"
    /\ continueIfRaises(actions[next].params, positionSize, ticker) # ""
    /\ Throw(continueIfRaises(actions[next].params, positionSize, ticker),
             "Conditional ContinueIf test did not pass. Cancel remaining commands")

\* stopIf whose test throws
StopIfStops ==
    /\ seqPc = "inCommand"
    /\ actions[next].name = "stopIf"
    /\ stopIfRaises(actions[next].params, positionSize, ticker) # ""
    /\ Throw(stopIfRaises(actions[next].params, positionSize, ticker), "Abort Sequence")

\* a command that places an order and is done
OrderReturns ==
    /\ seqPc = "inCommand"
    /\ actions[next].name = "marketOrder"
    /\ Return
    /\ UNCHANGED <<algoOrders, backgroundTasks, taskLog>>

\* the same command rejects (its arguments are refused, or the broker fails)
OrderThrows ==
    /\ seqPc = "inCommand"
    /\ actions[next].name = "marketOrder"
    /\ Throw(PlainError, "order failed")

\* cancelOrders(which=all): the session's algo orders are marked cancelled
CancelOrdersReturns ==
    /\ seqPc = "inCommand"
    /\ actions[next].name = "cancelOrders"
    /\ algoOrders' = cancelSessionAlgoOrders(algoOrders)
    /\ Return
    /\ UNCHANGED <<backgroundTasks, taskLog>>

\* trailingStop: addTask registers the algo order; a command that can complete
\* in the background joins the background tasks and executeCommand returns,
\* another is run to completion first
TaskStarts ==
    /\ seqPc = "inCommand"
    /\ actions[next].name = "trailingStop"
    /\ taskLog[next] = "none"
    /\ algoOrders' = startAlgoOrder(algoOrders, next)
    /\ taskLog' = [taskLog EXCEPT ![next] = "running"]
    /\ IF completesNow("keepGoing", actions[next].params.background)
       THEN UNCHANGED <<seqFrame, backgroundTasks, next, seqPc, started, inFlight, thrown,
                        errorLog, waitCalls>>
       ELSE /\ backgroundTasks' = backgroundTasks \cup {next}
            /\ Return

\* runToCompletion of a foreground trailingStop is over: executeCommand returns
TaskRanToCompletion ==
    /\ seqPc = "inCommand"
    /\ actions[next].name = "trailingStop"
    /\ taskLog[next] \in {"finished", "cancelled"}
    /\ Return
    /\ UNCHANGED <<algoOrders, backgroundTasks, taskLog>>

\* what the polling loop of a task leaves alone
taskFrame == <<seqFrame, next, seqPc, started, inFlight, thrown, errorLog, waitCalls>>

\* the polling loop of task i wakes, the task is not cancelled and
\* backgroundExecute() asks for another poll
TaskPollKeepGoing(i) ==
    /\ i \in DOMAIN taskLog
    /\ taskLog[i] \in {"running", "polled"}
    /\ ~isAlgoOrderCancelled(algoOrders, i)
    /\ taskLog' = [taskLog EXCEPT ![i] = "polled"]
    /\ UNCHANGED <<taskFrame, algoOrders, backgroundTasks>>

\* the same wake, backgroundExecute() returns Finished: the loop ends
TaskPollFinished(i) ==
    /\ i \in DOMAIN taskLog
    /\ taskLog[i] \in {"running", "polled"}
    /\ ~isAlgoOrderCancelled(algoOrders, i)
    /\ taskLog' = [taskLog EXCEPT ![i] = "finished"]
    /\ algoOrders' = removeIfFinished(algoOrders, "finished", i)
    /\ backgroundTasks' = backgroundTasks \ {i}
    /\ UNCHANGED taskFrame

\* the polling loop of task i wakes and finds it cancelled: onCancelled(), and
\* the loop ends
TaskSeesCancel(i) ==
    /\ i \in DOMAIN taskLog
    /\ taskLog[i] \in {"running", "polled"}
    /\ isAlgoOrderCancelled(algoOrders, i)
    /\ taskLog' = [taskLog EXCEPT ![i] = "cancelled"]
    /\ algoOrders' = removeIfFinished(algoOrders, stateAfterCancel, i)
    /\ backgroundTasks' = backgroundTasks \ {i}
    /\ UNCHANGED taskFrame

\* the for loop has run out of actions
SequenceEnds ==
    /\ seqPc = "loop"
    /\ next > Len(actions)
    /\ seqPc' = afterSequence("")
    /\ waitCalls' = waitCalls + 1
    /\ UNCHANGED <<seqFrame, algoOrders, backgroundTasks, next, started, inFlight, thrown,
                   errorLog, taskLog>>

\* await exchange.waitForBackgroundTasks() resolved: executeCommandSequence returns
WaitReturns ==
    /\ seqPc = "waiting"
    /\ tasksDrained(backgroundTasks)
    /\ seqPc' = "returned"
    /\ UNCHANGED <<seqFrame, algoOrders, backgroundTasks, next, started, inFlight, thrown,
                   errorLog, taskLog, waitCalls>>

\* executeMessage, finally: setTimeout(() => this.closeExchange(exchange), 500)
ScheduleClose ==
    /\ seqPc = "returned"
    /\ seqPc' = "closeScheduled"
    /\ UNCHANGED <<seqFrame, algoOrders, backgroundTasks, next, started, inFlight, thrown,
                   errorLog, taskLog, waitCalls>>

\* --- the blocks run ---

ConditionalParams ==
    { <<>>,
      "if" :> <<"N", "E", "V", "E", "R">>,
      "if" :> POSITIONLONG,
      ("if" :> PRICEGREATERTHAN) @@ ("value" :> <<0>>),
      "if" :> <<"x">> }

SeqActions ==
    {[name |-> n, params |-> p] : n \in {"continueIf", "stopIf"}, p \in ConditionalParams}
    \cup {[name |-> "trailingStop", params |-> [background |-> b]] : b \in BOOLEAN}
    \cup {[name |-> n, params |-> <<>>] : n \in {"marketOrder", "cancelOrders"}}

InitSeq ==
    /\ NullExchangeDelays
    /\ MgrIdle
    /\ CmdUnused
    /\ AggrUnused
    /\ StpUnused
    /\ MsgUnused
    /\ actions \in UNION {[1..n -> SeqActions] : n \in 0..MaxActions}
    /\ next = 1
    /\ seqPc = "addSymbol"
    /\ started = <<>>
    /\ inFlight = {}
    /\ thrown = ""
    /\ errorLog = <<>>
    /\ positionSize \in {0, 1}
    /\ taskLog = [i \in 1..Len(actions) |-> "none"]
    /\ waitCalls = 0

NextSeq ==
    \/ AddSymbolOk
    \/ AddSymbolFails
    \/ Invoke
    \/ ConditionalPasses
    \/ ContinueIfStops
    \/ StopIfStops
    \/ OrderReturns
    \/ OrderThrows
    \/ CancelOrdersReturns
    \/ TaskStarts
    \/ TaskRanToCompletion
    \/ \E i \in 1..MaxActions : TaskPollKeepGoing(i)
    \/ \E i \in 1..MaxActions : TaskPollFinished(i)
    \/ \E i \in 1..MaxActions : TaskSeesCancel(i)
    \/ SequenceEnds
    \/ WaitReturns
    \/ ScheduleClose

SpecSeq == InitSeq /\ [][NextSeq]_vars

\* what holds of the invocations in every state: they were made in the order
\* of the actions, at most one has not returned, and it is the last one made;
\* after a throw nothing is in flight
C12_State ==
    /\ started = [i \in 1..Len(started) |-> i]
    /\ Cardinality(inFlight) <= 1
    /\ inFlight \subseteq {Len(started)}
    /\ thrown # "" => (inFlight = {} /\ Len(started) = next)

\* what holds of every invocation: the one before has returned, nothing has
\* been thrown, and it is for the next action
C12_Step ==
    started' # started =>
        /\ inFlight = {}
        /\ thrown = ""
        /\ started' = Append(started, Len(started) + 1)

\* C12: executeCommand for action i+1 is invoked only after executeCommand for
\* action i has returned, so at most one foreground command is in flight; once
\* an action has thrown, no later action is started.
C12_InSeries == []C12_State /\ [][C12_Step]_vars

\* a foreground trailingStop was run to completion, the second action threw,
\* and the sequence returned without having started the third
C12_Witness ==
    /\ Len(actions) = 3
    /\ actions[1] = [name |-> "trailingStop", params |-> [background |-> FALSE]]
    /\ started = <<1, 2>>
    /\ thrown # ""
    /\ seqPc = "returned"

\* C13: executeCommandSequence calls waitForBackgroundTasks once, after its
\* last action and also after an action threw, and returns only when the
\* background-task set is empty; closeExchange is scheduled with the set
\* empty (after the wait, or with no action ever started if addSymbol failed).
C13_WaitsBeforeClose ==
    /\ waitCalls <= 1
    /\ seqPc = "waiting" => waitCalls = 1
    /\ seqPc = "returned" => (waitCalls = 1 /\ backgroundTasks = {})
    /\ seqPc = "closeScheduled" =>
          /\ backgroundTasks = {}
          /\ waitCalls = 1 \/ started = <<>>

\* a trailing stop went to the background, the next action threw, and
\* closeExchange was scheduled after the wait, the task having finished
C13_Witness ==
    /\ Len(actions) >= 2
    /\ actions[1] = [name |-> "trailingStop", params |-> [background |-> TRUE]]
    /\ started = <<1, 2>>
    /\ thrown = PlainError
    /\ taskLog[1] = "finished"
    /\ waitCalls = 1
    /\ seqPc = "closeScheduled"

\* the tasks handed to addTask for the background whose polling loop has not ended
C14_Live ==
    {i \in DOMAIN taskLog :
        /\ actions[i].name = "trailingStop"
        /\ actions[i].params.background
        /\ taskLog[i] \in {"running", "polled"}}

\* waitForBackgroundTasks returns
C14_WaitOver == seqPc = "waiting" /\ seqPc' = "returned"

\* C14: from the return of addTask to the end of its polling loop a task handed
\* to the background is in the background-task set (so a later
\* waitForBackgroundTasks finds it), and waitForBackgroundTasks returns only
\* with the set empty.
C14_TaskVisibleToWait ==
    /\ [](backgroundTasks = C14_Live)
    /\ [][C14_WaitOver => (backgroundTasks = {} /\ backgroundTasks' = {})]_vars

\* the sequence is over and waitForBackgroundTasks is held up by the task the
\* first action handed to the background
C14_Witness ==
    /\ seqPc = "waiting"
    /\ backgroundTasks = {1}
    /\ taskLog[1] = "polled"
    /\ thrown = ""

\* whether the condition of the conditional action a holds
C15_Holds(a) ==
    LET p == assignParams(ConditionalDefaults, a.params)
    IN conditional(toLowerCase(p.if), p.value, positionSize, ticker)

\* action i returned normally and the sequence went on
C15_Passed(i) == i < next /\ (i = Len(started) => thrown = "")

\* action i raised AbortSequence
C15_Aborted(i) == i = Len(started) /\ i = next /\ thrown = AbortSequenceError

\* C15: continueIf raises the AbortSequence error exactly when its condition
\* is false and stopIf raises the AbortSequence error exactly when its
\* condition is true; otherwise each returns and the sequence continues.
C15_ConditionalsRaiseAbort ==
    \A i \in 1..Len(started) :
        i \notin inFlight =>
            /\ actions[i].name = "continueIf" =>
                  IF C15_Holds(actions[i]) THEN C15_Passed(i) ELSE C15_Aborted(i)
            /\ actions[i].name = "stopIf" =>
                  IF C15_Holds(actions[i]) THEN C15_Aborted(i) ELSE C15_Passed(i)

\* C16: an AbortSequence that stops the sequence is not logged as an error,
\* any other error that stops it is.
C16_AbortIsSilent ==
    /\ thrown = AbortSequenceError => errorLog = <<>>
    /\ thrown \notin {"", AbortSequenceError} => errorLog # <<>>

\* the ids the registry marks cancelled
C17_Cancelled(reg) == {o.id : o \in {r \in reg : r.cancelled}}

\* the step that stops the sequence with AbortSequence leaves the registry, the
\* background tasks and the tasks themselves as they are; after it no task is
\* newly marked cancelled, and only a task marked cancelled ends by cancellation
C17_Step ==
    /\ (thrown = "" /\ thrown' = AbortSequenceError) =>
          (algoOrders' = algoOrders /\ backgroundTasks' = backgroundTasks /\ taskLog' = taskLog)
    /\ thrown = AbortSequenceError =>
          /\ C17_Cancelled(algoOrders') \subseteq C17_Cancelled(algoOrders)
          /\ \A i \in DOMAIN taskLog :
                (taskLog'[i] = "cancelled" /\ taskLog[i] # "cancelled") =>
                    i \in C17_Cancelled(algoOrders)

\* a sequence stopped by AbortSequence has returned only with no task left
C17_State ==
    (thrown = AbortSequenceError /\ seqPc \in {"returned", "closeScheduled"}) =>
        /\ backgroundTasks = {}
        /\ \A i \in DOMAIN taskLog : taskLog[i] \in {"none", "finished", "cancelled"}

\* C17: stopping a block by AbortSequence marks none of its background tasks
\* cancelled; they are polled until they report Finished, and the sequence
\* returns only after they have.
C17_AbortKeepsTasks == []C17_State /\ [][C17_Step]_vars

\* a trailing stop went to the background, continueIf stopped the block, and
\* the sequence returned after the task, never cancelled, had finished
C17_Witness ==
    /\ Len(actions) >= 2
    /\ actions[1] = [name |-> "trailingStop", params |-> [background |-> TRUE]]
    /\ actions[2].name = "continueIf"
    /\ thrown = AbortSequenceError
    /\ taskLog[1] = "finished"
    /\ seqPc = "returned"

\* ------------------------------------------------------------------------
\* aggressiveEntry: the slippage limit and the time limit
\* ------------------------------------------------------------------------

\* the price the loop's iteration has just been answered is beyond slippagePrice
C18_Beyond ==
    /\ pc = "aePrice"
    /\ \/ args.side = BUY /\ getCurrentPrice(ticker, BUY) > slippagePrice
       \/ args.side = SELL /\ getCurrentPrice(ticker, SELL) < slippagePrice

\* the entry takes its step from that iteration: with a slippageLimit it leaves
\* by the slippage exit, cancelling the active order if there is one; with
\* none it goes on
C18_Step ==
    /\ (C18_Beyond /\ pc' # pc) =>
          IF args.slippageLimit # <<>>
          THEN /\ exitBy' = "slippage"
               /\ cancelCalls' = IF activeOrder # NoOrder
                                  THEN Append(cancelCalls, activeOrder) ELSE cancelCalls
               /\ pc' = IF activeOrder # NoOrder THEN "aeExitCancel" ELSE "aeReturned"
          ELSE /\ exitBy' = exitBy
               /\ pc' \in {"aePlacing", "aeOrderQuery"}
    /\ exitBy = "slippage" =>
          (nextOrderId' = nextOrderId /\ exitBy' = exitBy /\ cancelCalls' = cancelCalls)

\* an entry that left by the slippage exit had a slippageLimit, is returning
\* or has returned, and an entry with no slippageLimit never leaves by it
C18_State ==
    exitBy = "slippage" =>
        /\ args.slippageLimit # <<>>
        /\ pc \in {"aeExitCancel", "aeReturned"}
        /\ pc = "aeReturned" => returned

\* C18: with a slippageLimit, in the first iteration whose price is beyond
\* slippagePrice the entry cancels its active order if it has one, places no
\* further order and returns; with no slippageLimit the price does not end it.
C18_SlippageExit == []C18_State /\ [][C18_Step]_vars

\* a buy whose order stood when the bid rose beyond slippagePrice: the order
\* was cancelled and the entry returned
C18_Witness ==
    /\ kind = "aggressiveEntry"
    /\ exitBy = "slippage"
    /\ pc = "aeReturned"
    /\ args.side = BUY
    /\ activeOrder # NoOrder
    /\ cancelCalls = <<activeOrder>>
    /\ currentPrice > slippagePrice

\* the steps of the entry itself: the continuations the runtime resumes when
\* the call or the wait they stand behind is over
AggrEntryStep ==
    \/ AggrStart
    \/ AggrComplete
    \/ AggrSeesCancel
    \/ AggrTimeLimit
    \/ AggrAskPrice
    \/ AggrSlipped
    \/ AggrPriced
    \/ AggrPlaced
    \/ AggrPlaceRejected
    \/ AggrPlaceUnread
    \/ AggrInfoNull
    \/ AggrInfoFilled
    \/ AggrInfoClosed
    \/ AggrInfoMove
    \/ AggrInfoStay
    \/ AggrMoved
    \/ AggrWake
    \/ AggrExitCancelled

\* the aggressive entry with broker calls and waits that come back, and a
\* clock that goes on
SpecAggrLive == SpecAggr /\ WF_vars(AggrEntryStep) /\ WF_vars(ClockExpires)

\* the loop is at its top, not cancelled, with something left to order and the
\* time limit passed
C19_Expired ==
    /\ pc = "aeLoop"
    /\ amountLeft >= MinOrderSize
    /\ ~isAlgoOrderCancelled(algoOrders, TaskId)
    /\ args.timeLimit > 0
    /\ expired

\* that iteration leaves by the time-limit exit, cancelling the active order
\* if there is one and placing none; an entry that left by it places no order
\* and makes no further call
C19_Step ==
    /\ (C19_Expired /\ pc' # pc) =>
          /\ exitBy' = "timeLimit"
          /\ cancelCalls' = IF activeOrder # NoOrder
                             THEN Append(cancelCalls, activeOrder) ELSE cancelCalls
          /\ pc' = IF activeOrder # NoOrder THEN "aeExitCancel" ELSE "aeReturned"
          /\ nextOrderId' = nextOrderId
    /\ exitBy = "timeLimit" =>
          (nextOrderId' = nextOrderId /\ exitBy' = exitBy /\ cancelCalls' = cancelCalls)

\* an entry leaves by the time-limit exit only with a time limit, and after
\* the expiry time
C19_State ==
    exitBy = "timeLimit" =>
        /\ args.timeLimit > 0
        /\ expired
        /\ pc \in {"aeExitCancel", "aeReturned"}

\* an entry with a time limit that has reached its loop
C19_Limited == kind = "aggressiveEntry" /\ pc = "aeLoop" /\ args.timeLimit > 0

\* C19: with a timeLimit the entry returns in the end, whether or not its
\* orders fill: the first iteration that finds the expiry time passed cancels
\* the active order and exits without placing another; with timeLimit 0 there
\* is no time-based exit.
C19_TimeLimitExit ==
    /\ []C19_State
    /\ [][C19_Step]_vars
    /\ C19_Limited ~> (pc = "aeReturned")

\* an order stood unfilled when the time limit was found passed: it was
\* cancelled and the entry returned
C19_Witness ==
    /\ kind = "aggressiveEntry"
    /\ exitBy = "timeLimit"
    /\ pc = "aeReturned"
    /\ returned
    /\ activeOrder # NoOrder
    /\ brokerStatus = "closed"
    /\ cancelCalls = <<activeOrder>>
    /\ amountLeft = args.amount

\* ------------------------------------------------------------------------
\* stopAndTakeProfitOrder (exchanges/commands/algo/stop_take_profit_order.js)
\* ------------------------------------------------------------------------

\* tp, sl and amount are numbers; the tag plays no part
StpDefaults == [side |-> BUY, tp |-> 100, sl |-> 100, amount |-> 0]

\* the arguments of the limitOrder command for the take-profit leg
tpParams(p) ==
    [side |-> p.side, offset |-> p.tp, amount |-> p.amount,
     postOnly |-> TRUESTR, reduceOnly |-> TRUESTR]

\* the arguments of the stopMarketOrder command for the stop leg
slParams(p) == [side |-> p.side, offset |-> p.sl, amount |-> p.amount]

\* info.is_filled || !info.is_open, of an order the broker knows
legDone(info) == info \in {"filled", "closed"}

\* what no step of the command changes
stpFrame == <<mgrVars, aggrVars, seqVars, msgVars, cfgVars, kind, expected, passed, ticker, wallet, order,
              lastPrice, hasTriggered, pendingPrice, lastState, algoOrders,
              backgroundTasks, mrtc, brokerStatus, sessionOrder, onCancelledCalls,
              pollsSinceCancelSeen, cancelledAt>>

\* the command up to its first await: a side other than 'buy' and 'sell' (as
\* written: the side is not lower-cased) throws, else the limitOrder command
\* is executed
StpStart ==
    /\ kind = "stopAndTakeProfit"
    /\ pc = "new"
    /\ LET p == assignParams(expected, passed) IN
        /\ args' = p
        /\ IF p.side # BUY /\ p.side # SELL
           THEN /\ setupErr' = ErrSide
                /\ pc' = "stpThrew"
                /\ UNCHANGED limitCalls
           ELSE /\ limitCalls' = Append(limitCalls, tpParams(p))
                /\ pc' = "stpPlacingTp"
                /\ UNCHANGED setupErr
    /\ UNCHANGED <<stpFrame, waitTime, nextOrderId, stopCalls, cancelCalls, returned, tpOrder, slOrder,
                   tpStatus, slStatus, observed>>

\* limitOrder resolved: tpOrder is its order; the stopMarketOrder command is
\* executed
StpTpPlaced ==
    /\ pc = "stpPlacingTp"
    /\ tpOrder' = nextOrderId
    /\ nextOrderId' = nextOrderId + 1
    /\ tpStatus' = "open"
    /\ stopCalls' = Append(stopCalls, slParams(args))
    /\ pc' = "stpPlacingSl"
    /\ UNCHANGED <<stpFrame, waitTime, args, setupErr, cancelCalls, returned, slOrder, slStatus,
                   limitCalls, observed>>

\* stopMarketOrder resolved: slOrder is its order; the loop asks the broker
\* for the take-profit order
StpSlPlaced ==
    /\ pc = "stpPlacingSl"
    /\ slOrder' = nextOrderId
    /\ nextOrderId' = nextOrderId + 1
    /\ slStatus' = "open"
    /\ waitTime' = maxPollingDelay
    /\ pc' = "stpQueryTp"
    /\ UNCHANGED <<stpFrame, args, setupErr, stopCalls, cancelCalls, returned, tpOrder,
                   tpStatus, limitCalls, observed>>

\* one of the two commands, the query of the take-profit order, or a cancel
\* outside the try block rejects: the command throws
StpThrows ==
    /\ pc \in {"stpPlacingTp", "stpPlacingSl", "stpQueryTp", "stpCancelling"}
    /\ pc' = "stpThrew"
    /\ UNCHANGED <<stpFrame, waitTime, args, setupErr, nextOrderId, stopCalls, cancelCalls, returned,
                   stpVars>>

\* what the steps of the loop leave alone
stpLoopFrame == <<stpFrame, waitTime, args, setupErr, nextOrderId, stopCalls, tpOrder, slOrder,
                  limitCalls>>

\* api.order(tpOrder): the take-profit order is filled or no longer open; the
\* broker is asked to cancel the stop order
StpTpDone ==
    /\ pc = "stpQueryTp"
    /\ legDone(tpStatus)
    /\ observed' = "tp"
    /\ cancelCalls' = Append(cancelCalls, slOrder)
    /\ pc' = "stpCancelling"
    /\ UNCHANGED <<stpLoopFrame, returned, tpStatus, slStatus>>

\* api.order(tpOrder): null, or an order still open; the loop asks for the
\* stop order
StpTpPending ==
    /\ pc = "stpQueryTp"
    /\ \E info \in {"null", tpStatus} : ~(info # "null" /\ legDone(info))
    /\ pc' = "stpQuerySl"
    /\ UNCHANGED <<stpLoopFrame, cancelCalls, returned, tpStatus, slStatus, observed>>

\* api.order(slOrder): the stop order is filled or no longer open; the broker
\* is asked to cancel the take-profit order (inside the try block)
StpSlDone ==
    /\ pc = "stpQuerySl"
    /\ legDone(slStatus)
    /\ observed' = "sl"
    /\ cancelCalls' = Append(cancelCalls, tpOrder)
    /\ pc' = "stpCancellingInTry"
    /\ UNCHANGED <<stpLoopFrame, returned, tpStatus, slStatus>>

\* api.order(slOrder): null, or an order still open; the loop waits
StpSlPending ==
    /\ pc = "stpQuerySl"
    /\ \E info \in {"null", slStatus} : ~(info # "null" /\ legDone(info))
    /\ pc' = "stpWait"
    /\ UNCHANGED <<stpLoopFrame, cancelCalls, returned, tpStatus, slStatus, observed>>

\* api.order(slOrder) rejects: the catch block asks the broker to cancel the
\* take-profit order
StpSlQueryFails ==
    /\ pc = "stpQuerySl"
    /\ observed' = "slError"
    /\ cancelCalls' = Append(cancelCalls, tpOrder)
    /\ pc' = "stpCancelling"
    /\ UNCHANGED <<stpLoopFrame, returned, tpStatus, slStatus>>

\* the cancel inside the try block rejects: the catch block asks again
StpCancelInTryFails ==
    /\ pc = "stpCancellingInTry"
    /\ cancelCalls' = Append(cancelCalls, tpOrder)
    /\ pc' = "stpCancelling"
    /\ UNCHANGED <<stpLoopFrame, returned, tpStatus, slStatus, observed>>

\* api.cancelOrders resolved: the order asked for is closed if it was open,
\* and the command returns true
StpCancelReturns ==
    /\ pc \in {"stpCancelling", "stpCancellingInTry"}
    /\ LET target == cancelCalls[Len(cancelCalls)] IN
        /\ tpStatus' = IF target = tpOrder /\ tpStatus = "open" THEN "closed" ELSE tpStatus
        /\ slStatus' = IF target = slOrder /\ slStatus = "open" THEN "closed" ELSE slStatus
    /\ pc' = "stpReturned"
    /\ returned' = TRUE
    /\ UNCHANGED <<stpLoopFrame, cancelCalls, observed>>

\* waitSeconds(maxPollingDelay) is over
StpWake ==
    /\ pc = "stpWait"
    /\ pc' = "stpQueryTp"
    /\ UNCHANGED <<stpLoopFrame, cancelCalls, returned, tpStatus, slStatus, observed>>

\* the command is running with both orders placed
StpRunning == pc \in {"stpQueryTp", "stpQuerySl", "stpWait"}

\* the broker fills or closes the take-profit order
StpTpEnds ==
    /\ StpRunning
    /\ tpStatus = "open"
    /\ tpStatus' \in {"filled", "closed"}
    /\ UNCHANGED <<stpLoopFrame, pc, cancelCalls, returned, slStatus, observed>>

\* the broker fills or closes the stop order
StpSlEnds ==
    /\ StpRunning
    /\ slStatus = "open"
    /\ slStatus' \in {"filled", "closed"}
    /\ UNCHANGED <<stpLoopFrame, pc, cancelCalls, returned, tpStatus, observed>>

StpPassed ==
    {item("side", <<s>>) @@ item("tp", <<t>>) @@ item("sl", <<l>>) @@ item("amount", <<am>>) :
     s \in {BUY, SELL, <<"S", "e", "l", "l">>}, t \in 1..MaxPrice, l \in 1..MaxPrice,
     am \in 1..MaxAmount}

\* a stopAndTakeProfitOrder, new
StopAndTakeProfits ==
    /\ MgrIdle
    /\ CmdNew
    /\ AggrUnused
    /\ SeqUnused
    /\ StpUnused
    /\ MsgUnused
    /\ kind = "stopAndTakeProfit"
    /\ expected = StpDefaults
    /\ passed \in StpPassed \cup {<<>>}
    /\ ticker = [bid |-> 1, ask |-> 1, last |-> 1]
    /\ wallet = [asset |-> 0, currency |-> 0]

InitStp ==
    /\ NullExchangeDelays
    /\ StopAndTakeProfits

NextStp ==
    \/ StpStart
    \/ StpTpPlaced
    \/ StpSlPlaced
    \/ StpThrows
    \/ StpTpDone
    \/ StpTpPending
    \/ StpSlDone
    \/ StpSlPending
    \/ StpSlQueryFails
    \/ StpCancelInTryFails
    \/ StpCancelReturns
    \/ StpWake
    \/ StpTpEnds
    \/ StpSlEnds

SpecStp == InitStp /\ [][NextStp]_vars

\* C20: stopAndTakeProfitOrder places exactly one take-profit limit order
\* (post-only, reduce-only) and exactly one stop order, returns only after it
\* has seen one of the two filled or no longer open, and has asked the broker
\* to cancel the other leg before it returns.
C20_OneLegDoneThenCancel ==
    /\ Len(limitCalls) <= 1 /\ Len(stopCalls) <= 1
    /\ \A i \in 1..Len(limitCalls) :
          limitCalls[i].postOnly = TRUESTR /\ limitCalls[i].reduceOnly = TRUESTR
    /\ (kind = "stopAndTakeProfit" /\ pc = "stpReturned") =>
          /\ Len(limitCalls) = 1 /\ Len(stopCalls) = 1
          /\ \/ tpStatus \in {"filled", "closed"} /\ observed = "tp"
                /\ cancelCalls[Len(cancelCalls)] = slOrder
             \/ slStatus \in {"filled", "closed"} /\ observed = "sl"
                /\ cancelCalls[Len(cancelCalls)] = tpOrder

\* ------------------------------------------------------------------------
\* Messages: alerts and command blocks (exchanges/manager.js)
\* ------------------------------------------------------------------------

\* [a-z] under the i flag
IsLetter(c) ==
    c \in {"a", "b", "c", "d", "e", "f", "g", "h", "i", "j", "k", "l", "m", "n", "o", "p",
           "q", "r", "s", "t", "u", "v", "w", "x", "y", "z",
           "A", "B", "C", "D", "E", "F", "G", "H", "I", "J", "K", "L", "M", "N", "O", "P",
           "Q", "R", "S", "T", "U", "V", "W", "X", "Y", "Z"}

\* [a-z0-9] under the i flag
IsAlnum(c) == IsLetter(c) \/ c \in {"0", "1", "2", "3", "4", "5", "6", "7", "8", "9"}

\* \s
IsSpace(c) == c \in {" ", "\n", "\t", "\r"}

\* the least member of a non-empty set of numbers
Least(S) == CHOOSE x \in S : \A y \in S : x <= y

\* the first position from i on that holds no character of the class (one
\* past the end when there is none): where a greedy run that started at i stops
RunEnd(s, i, InClass(_)) ==
    Least({j \in i..Len(s) + 1 : j = Len(s) + 1 \/ ~InClass(s[j])})

\* the tail  \)\s*{([\s\S]*?)}  of both patterns, tried with ')' at k: the
\* position of the closing brace, 0 when the tail does not match there
BodyEnd(s, k) ==
    IF k > Len(s) \/ s[k] # ")" THEN 0
    ELSE LET m == RunEnd(s, k + 1, IsSpace)
             closes == {n \in m + 1..Len(s) : s[n] = "}"}
         IN  IF m > Len(s) \/ s[m] # "{" \/ closes = {} THEN 0 ELSE Least(closes)

\* /([a-z]+)\(([\s\S]*?)\)\s*{([\s\S]*?)}/gi tried at position i: the last
\* position of the match, 0 when there is none. The name is the whole run of
\* letters, the lazy first group stops at the first ')' the tail accepts.
alertBlockEnd(s, i) ==
    LET j == RunEnd(s, i, IsLetter)
        ks == {k \in j + 1..Len(s) : BodyEnd(s, k) # 0}
    IN  IF j = i \/ j > Len(s) \/ s[j] # "(" \/ ks = {} THEN 0
        ELSE BodyEnd(s, Least(ks))

\* /([a-z][a-z0-9]*)\(([^()]*?)\)\s*{([\s\S]*?)}/gi tried at position i: the
\* positions <<name end, ')', '{', '}'>> of the match, <<>> when there is none
commandBlockAt(s, i) ==
    IF i > Len(s) \/ ~IsLetter(s[i]) THEN <<>>
    ELSE LET j == RunEnd(s, i, IsAlnum)
             NoParen(c) == c \notin {"(", ")"}
             k == IF j > Len(s) THEN j ELSE RunEnd(s, j + 1, NoParen)
         IN  IF j > Len(s) \/ s[j] # "(" \/ BodyEnd(s, k) = 0 THEN <<>>
             ELSE <<j, k, RunEnd(s, k + 1, IsSpace), BodyEnd(s, k)>>

\* String.prototype.replace(<alert block pattern>, ''), from position i on
RECURSIVE removeAlertBlocks(_, _)
removeAlertBlocks(s, i) ==
    IF i > Len(s) THEN <<>>
    ELSE IF alertBlockEnd(s, i) # 0 THEN removeAlertBlocks(s, alertBlockEnd(s, i) + 1)
         ELSE <<s[i]>> \o removeAlertBlocks(s, i + 1)

NotifyToken == <<"{", "!", "}">>

\* the positions where {!} starts
notifyAt(s) == {i \in 1..Len(s) - 2 : SubSeq(s, i, i + 2) = NotifyToken}

\* replace(/\{!\}/, ''): no g flag, the first occurrence only
removeNotify(s) ==
    IF notifyAt(s) = {} THEN s
    ELSE LET i == Least(notifyAt(s)) IN SubSeq(s, 1, i - 1) \o SubSeq(s, i + 3, Len(s))

\* replace(/\s+/ug, ' ')
RECURSIVE collapseSpaces(_)
collapseSpaces(s) ==
    IF s = <<>> THEN <<>>
    ELSE IF IsSpace(s[1])
         THEN <<" ">> \o collapseSpaces(SubSeq(s, RunEnd(s, 1, IsSpace), Len(s)))
         ELSE <<s[1]>> \o collapseSpaces(Tail(s))

\* String.prototype.trim
trim(s) ==
    LET keep == {i \in 1..Len(s) : ~IsSpace(s[i])}
    IN  IF keep = {} THEN <<>>
        ELSE SubSeq(s, Least(keep), CHOOSE x \in keep : \A y \in keep : y <= x)

\* handleAlerts' toSend
toSend(m) == trim(collapseSpaces(removeNotify(removeAlertBlocks(m, 1))))

\* handleAlerts: what notifier.send is called with, after the calls in before
handleAlerts(m, before) ==
    IF notifyAt(m) # {} /\ toSend(m) # <<>> THEN Append(before, toSend(m)) ELSE before

\* commandBlocks: the callback's arguments, for the matches from position i on
RECURSIVE commandBlocks(_, _)
commandBlocks(m, i) ==
    IF i > Len(m) THEN <<>>
    ELSE LET at == commandBlockAt(m, i)
         IN  IF at = <<>> THEN commandBlocks(m, i + 1)
             ELSE LET exchangeName == toLowerCase(trim(SubSeq(m, i, at[1] - 1)))
                      symbol == trim(SubSeq(m, at[1] + 1, at[2] - 1))
                      actionsText == trim(SubSeq(m, at[3] + 1, at[4] - 1))
                      found == IF exchangeName # <<>> /\ symbol # <<>> /\ actionsText # <<>>
                               THEN <<[name |-> exchangeName, symbol |-> symbol,
                                       actions |-> actionsText]>>
                               ELSE <<>>
                  IN  found \o commandBlocks(m, at[4] + 1)

\* undefined, of Array.prototype.find
NoCredentials == [name |-> <<>>, key |-> 0]

\* the last entry of that name
findCredentialsLast(creds, exchangeName) ==
    LET hits == {i \in 1..Len(creds) : toLowerCase(creds[i].name) = exchangeName}
    IN  IF hits = {} THEN NoCredentials ELSE creds[CHOOSE i \in hits : \A j \in hits : j <= i]

\* credentials.find(item => item.name.toLowerCase() === exchangeName)
findCredentials(creds, exchangeName) ==
    LET hits == {i \in 1..Len(creds) : toLowerCase(creds[i].name) = exchangeName}
    IN  IF hits = {} THEN NoCredentials ELSE creds[Least(hits)]

\* the blocks array of executeMessage
blocksOf(m, creds) ==
    LET found == commandBlocks(m, 1)
    IN  [i \in 1..Len(found) |->
            [name |-> found[i].name, symbol |-> found[i].symbol,
             actions |-> found[i].actions,
             credentials |-> findCredentials(creds, found[i].name)]]

\* what no step of executeMessage changes
msgFrame == <<mgrVars, cmdVars, aggrVars, seqVars, stpVars, cfgVars>>

\* executeMessage up to its return: the alert, the blocks, and each block's
\* function up to its first await (none for a block without credentials)
ExecuteMessage ==
    /\ msgPc = "received"
    /\ sent' = handleAlerts(message, sent)
    /\ blocks' = blocksOf(message, credentials)
    /\ msgPc' = IF blocks' = <<>> THEN "ignored" ELSE "mapped"
    /\ blockPc' = [i \in 1..Len(blocks') |->
                      IF blocks'[i].credentials = NoCredentials THEN "noCredentials"
                      ELSE "opening"]
    /\ openCalls' = SelectSeq([i \in 1..Len(blocks') |->
                                  <<i, blocks'[i].name, blocks'[i].credentials>>],
                              LAMBDA c : c[3] # NoCredentials)
    /\ UNCHANGED <<msgFrame, message, credentials, ran>>

\* openExchange gave an exchange: addSymbol is called
BlockOpened(i) ==
    /\ blockPc[i] = "opening"
    /\ blockPc' = [blockPc EXCEPT ![i] = "addingSymbol"]
    /\ UNCHANGED <<msgFrame, message, credentials, msgPc, sent, blocks, openCalls, ran>>

\* openExchange gave nothing: 'Unable to start exchange', and the block is over
BlockNotOpened(i) ==
    /\ blockPc[i] = "opening"
    /\ blockPc' = [blockPc EXCEPT ![i] = "unableToStart"]
    /\ UNCHANGED <<msgFrame, message, credentials, msgPc, sent, blocks, openCalls, ran>>

\* addSymbol returned: executeCommandSequence is called with the block's
\* symbol and actions
BlockSymbolAdded(i) ==
    /\ blockPc[i] = "addingSymbol"
    /\ blockPc' = [blockPc EXCEPT ![i] = "running"]
    /\ ran' = Append(ran, <<i, blocks[i].symbol, blocks[i].actions>>)
    /\ UNCHANGED <<msgFrame, message, credentials, msgPc, sent, blocks, openCalls>>

\* addSymbol or executeCommandSequence threw: logged, then the finally clause
BlockThrows(i) ==
    /\ blockPc[i] \in {"addingSymbol", "running"}
    /\ blockPc' = [blockPc EXCEPT ![i] = "closing"]
    /\ UNCHANGED <<msgFrame, message, credentials, msgPc, sent, blocks, openCalls, ran>>

\* executeCommandSequence returned: the finally clause sets the close timer
BlockSequenceDone(i) ==
    /\ blockPc[i] = "running"
    /\ blockPc' = [blockPc EXCEPT ![i] = "closing"]
    /\ UNCHANGED <<msgFrame, message, credentials, msgPc, sent, blocks, openCalls, ran>>

\* the timer of the finally clause fires: closeExchange
BlockClosed(i) ==
    /\ blockPc[i] = "closing"
    /\ blockPc' = [blockPc EXCEPT ![i] = "closed"]
    /\ UNCHANGED <<msgFrame, message, credentials, msgPc, sent, blocks, openCalls, ran>>

\* the most pieces a message is put together from
MaxPieces == 4

\* the pieces: the alert token, names, a whole block body, its halves, an
\* empty symbol, a blank and single braces
Pieces ==
    {NotifyToken, <<"a">>, <<"A">>, <<"b">>, <<"1">>, <<"(", "x", ")", "{", "y", "}">>,
     <<"(", "x", ")">>, <<"{", "y", "}">>, <<"(", ")">>, <<" ">>, <<"{">>, <<"}">>}

RECURSIVE Messages(_)
Messages(n) ==
    IF n = 0 THEN {<<>>}
    ELSE LET shorter == Messages(n - 1)
         IN  shorter \cup {m \o p : m \in shorter, p \in Pieces}

\* the credentials lists: up to two entries, the key tells them apart
CredentialLists ==
    LET Names == {<<"A">>, <<"a", "1">>}
    IN  {<<>>} \cup {<<[name |-> n, key |-> 1]>> : n \in Names}
               \cup {<<[name |-> n, key |-> 1], [name |-> o, key |-> 2]>> : n, o \in Names}

InitMsg ==
    /\ NullExchangeDelays
    /\ MgrIdle
    /\ CmdUnused
    /\ AggrUnused
    /\ SeqUnused
    /\ StpUnused
    /\ message \in Messages(MaxPieces)
    /\ credentials \in CredentialLists
    /\ msgPc = "received"
    /\ sent = <<>>
    /\ blocks = <<>>
    /\ blockPc = <<>>
    /\ openCalls = <<>>
    /\ ran = <<>>

NextMsg ==
    \/ ExecuteMessage
    \/ \E i \in 1..MaxPieces : i <= Len(blockPc) /\ BlockOpened(i)
    \/ \E i \in 1..MaxPieces : i <= Len(blockPc) /\ BlockNotOpened(i)
    \/ \E i \in 1..MaxPieces : i <= Len(blockPc) /\ BlockSymbolAdded(i)
    \/ \E i \in 1..MaxPieces : i <= Len(blockPc) /\ BlockThrows(i)
    \/ \E i \in 1..MaxPieces : i <= Len(blockPc) /\ BlockSequenceDone(i)
    \/ \E i \in 1..MaxPieces : i <= Len(blockPc) /\ BlockClosed(i)

SpecMsg == InitMsg /\ [][NextMsg]_vars

\* C21: for a message that contains {!}, the text handed to notifier.send
\* contains neither {!} nor anything that matches the command-block pattern
\* name(symbol) { actions }; send is called at most once per message, and
\* never for a message without {!}.
C21_AlertIsClean ==
    /\ Len(sent) <= 1
    /\ notifyAt(message) = {} => sent = <<>>
    /\ \A i \in 1..Len(sent) :
          /\ notifyAt(sent[i]) = {}
          /\ \A p \in 1..Len(sent[i]) :
                alertBlockEnd(sent[i], p) = 0 /\ commandBlockAt(sent[i], p) = <<>>

\* C22: when init() of a newly constructed exchange throws, openExchange
\* returns null to its caller, and by then terminate() has been called on the
\* new exchange and the exchange is no longer in the pool of opened exchanges.
C22_InitFailureTearsDown ==
    \A c \in Callers :
        cpc[c] = "null" =>
            /\ termCalls[cex[c]] >= 1
            /\ \A i \in 1..Len(opened) : opened[i] # cex[c]

\* the credentials entries whose name is the block's exchange name, ignoring case
C23_Matching(i) ==
    {k \in 1..Len(credentials) :
        toLowerCase(credentials[k].name) = toLowerCase(blocks[i].name)}

\* C23: each parsed block is executed with the first entry of the credentials
\* list whose name equals the block's exchange name ignoring case; a block
\* with no such entry opens no exchange and executes no command, and the
\* other blocks of the message are started all the same.
C23_FirstMatchingCredentials ==
    \A i \in 1..Len(blocks) :
        LET opens == {c \in 1..Len(openCalls) : openCalls[c][1] = i}
            runs == {r \in 1..Len(ran) : ran[r][1] = i}
        IN  IF C23_Matching(i) = {}
            THEN opens = {} /\ runs = {} /\ blockPc[i] = "noCredentials"
            ELSE /\ Cardinality(opens) = 1
                 /\ \A c \in opens :
                       /\ openCalls[c][2] = toLowerCase(blocks[i].name)
                       /\ openCalls[c][3] = credentials[Least(C23_Matching(i))]
                 /\ \A r \in runs :
                       ran[r] = <<i, blocks[i].symbol, blocks[i].actions>>

\* the first block has no credentials, the second matches both entries and
\* ran with the first of them
C23_Witness ==
    /\ Len(blocks) = 2
    /\ Len(credentials) = 2
    /\ C23_Matching(1) = {}
    /\ C23_Matching(2) = {1, 2}
    /\ blocks[2].name # credentials[1].name
    /\ blockPc = <<"noCredentials", "closed">>
    /\ openCalls = <<<<2, blocks[2].name, credentials[1]>>>>
    /\ ran = <<<<2, blocks[2].symbol, blocks[2].actions>>>>

\* ------------------------------------------------------------------------
\* assignParams with the parser's items -- exchange.js is not part of the
\* sources; this follows the specification (4.1). The defaults are given in
\* declaration order, as <<name, value>> pairs; an item is
\* [name, value, index], name "" for a positional item.
\* ------------------------------------------------------------------------

\* the defaults as a map
defaultsMap(declared) ==
    [k \in {declared[p][1] : p \in 1..Len(declared)} |->
        declared[CHOOSE p \in 1..Len(declared) : declared[p][1] = k][2]]

\* the greatest member of a non-empty set of numbers
Greatest(S) == CHOOSE x \in S : \A y \in S : y <= x

\* an assignParams that knows named items only
assignParamsNamedOnly(declared, items) ==
    [k \in DOMAIN defaultsMap(declared) |->
        LET named == {j \in 1..Len(items) : items[j].name = k}
        IN  IF named # {} THEN items[Greatest(named)].value ELSE defaultsMap(declared)[k]]

\* the defaults; a positional item replaces the default declared at its
\* index; a named item replaces the value of its name; other items are dropped
assignParamsOrdered(declared, items) ==
    [k \in DOMAIN defaultsMap(declared) |->
        LET p == CHOOSE q \in 1..Len(declared) : declared[q][1] = k
            named == {j \in 1..Len(items) : items[j].name = k}
            positional == {j \in 1..Len(items) : items[j].name = "" /\ items[j].index = p - 1}
        IN  IF named # {} THEN items[Greatest(named)].value
            ELSE IF positional # {} THEN items[Greatest(positional)].value
                 ELSE defaultsMap(declared)[k]]

\* setup() of a plain ExchangeCommand, given the parser's items:
\* prepareArguments, whose assignParams leaves the assigned map as it is
SetupItems ==
    /\ pc = "new"
    /\ kind = "items"
    /\ LET r == prepareArguments(defaultsMap(expected), assignParamsOrdered(expected, passed),
                                 ticker, wallet) IN
        /\ args' = r.args
        /\ setupErr' = r.err
        /\ pc' = IF r.err = "" THEN "ready" ELSE "setupFailed"
    /\ UNCHANGED <<notCmd, cancelledAt, kind, expected, passed, ticker, wallet, order, lastPrice,
                   hasTriggered, pendingPrice, waitTime, lastState, algoOrders, backgroundTasks,
                   returned, mrtc, brokerStatus, nextOrderId, sessionOrder, stopCalls,
                   cancelCalls, onCancelledCalls, pollsSinceCancelSeen>>

\* the most items passed to a command
MaxItems == 3

ItemValue == <<"v">>

\* the default maps: the one of the test 'can override defaults', and two with a side
DeclaredDefaults ==
    { << <<"test", <<"e">> >>, <<"unchanged", <<"n">> >> >>,
      << <<"side", BUY>>, <<"test", <<"e">> >> >>,
      << <<"test", <<"e">> >>, <<"side", SELL>>, <<"unchanged", <<"n">> >> >> }

\* what the parser can give: the index is the place in the argument list,
\* and no name is given twice
ItemLists ==
    LET Named == {"", "test", "side", "unchanged", "another"}
        Values == {BUY, SELL, ItemValue}
        Raw == UNION {[1..n -> Named \X Values] : n \in 0..MaxItems}
    IN  {[j \in 1..Len(l) |-> [name |-> l[j][1], value |-> l[j][2], index |-> j - 1]] :
         l \in {r \in Raw : \A i, j \in 1..Len(r) :
                               (i # j /\ r[i][1] # "") => r[i][1] # r[j][1]}}

InitAssign ==
    /\ NullExchangeDelays
    /\ MgrIdle
    /\ CmdNew
    /\ AggrUnused
    /\ SeqUnused
    /\ StpUnused
    /\ MsgUnused
    /\ kind = "items"
    /\ expected \in DeclaredDefaults
    /\ passed \in ItemLists
    /\ ticker = [bid |-> 1, ask |-> 1, last |-> 1]
    /\ wallet = [asset |-> 0, currency |-> 0]

NextAssign == SetupItems

SpecAssign == InitAssign /\ [][NextAssign]_vars

\* the place of a default in the declaration, 0 for a name that is no default
C24_Place(k) ==
    IF \E p \in 1..Len(expected) : expected[p][1] = k
    THEN CHOOSE p \in 1..Len(expected) : expected[p][1] = k
    ELSE 0

\* C24: after a successful normalisation the argument map has the keys of the
\* default map, plus derived keys: a named item gives the value of its name,
\* a positional item gives the value of the default declared at its place, a
\* named item later in the list overrides that, a default nothing was passed
\* for keeps its value, and an item whose name is no default leaves no trace.
C24_NamedAndPositional ==
    (kind = "items" /\ pc = "ready") =>
        /\ DOMAIN args \ {"oppositeSide"} = {expected[p][1] : p \in 1..Len(expected)}
        /\ "oppositeSide" \in DOMAIN args <=> "side" \in DOMAIN args
        /\ \A p \in 1..Len(expected) :
              LET k == expected[p][1]
                  named == {j \in 1..Len(passed) : passed[j].name = k}
                  positional == {j \in 1..Len(passed) :
                                    passed[j].name = "" /\ passed[j].index = p - 1}
              IN  /\ \A j \in named :
                        (positional = {} \/ \A i \in positional : i < j) =>
                            args[k] = passed[j].value
                  /\ \A i \in positional : named = {} => args[k] = passed[i].value
                  /\ (named = {} /\ positional = {}) => args[k] = expected[p][2]

\* a positional item took the place of the first default, a later named item
\* overrode a positional one, and an unknown name was dropped
C24_Witness ==
    /\ kind = "items"
    /\ pc = "ready"
    /\ Len(expected) = 2
    /\ Len(passed) = 3
    /\ passed[1].name = "" /\ passed[2].name = "another" /\ passed[3].name = "side"
    /\ expected[1][1] = "side"
    /\ passed[1].value = BUY /\ passed[3].value = SELL
    /\ args = [side |-> SELL, oppositeSide |-> BUY, test |-> <<"e">>]

\* the side the command ends normalisation with a price for: the opposite
\* side for the stop commands, the side itself otherwise
C25_PriceSide ==
    IF kind \in {"stopMarket", "trailingStop", "trailingTakeProfit"}
    THEN args.oppositeSide
    ELSE args.side

\* C25: orderPrice from a plain-number offset n is bid - n for a buy and
\* ask + n for a sell, and from '@X' it is X for either side; a stop command
\* (stopMarket, trailingStop, trailingTakeProfit) ends normalisation with the
\* price of the opposite side, so a sell stop with offset n is at bid - n.
C25_OffsetToOrderPrice ==
    (SetupDone /\ setupErr = "" /\ hasArg(C_Given, "offset") /\ hasArg(C_Given, "side")) =>
        /\ hasArg(args, "orderPrice")
        /\ args.offset.kind = "abs" => args.orderPrice = args.offset.n
        /\ (args.offset.kind = "ticks" /\ C25_PriceSide = BUY) =>
              args.orderPrice = ticker.bid - args.offset.n
        /\ (args.offset.kind = "ticks" /\ C25_PriceSide = SELL) =>
              args.orderPrice = ticker.ask + args.offset.n

\* a sell stop with a plain offset, bid below ask: the stop is below the bid
C25_Witness ==
    /\ kind = "stopMarket"
    /\ SetupDone
    /\ setupErr = ""
    /\ args.side = SELL
    /\ args.offset = Ticks(1)
    /\ ticker.bid < ticker.ask
    /\ args.orderPrice = ticker.bid - 1

\* ------------------------------------------------------------------------
\* The trailing commands with a broker that can refuse to move an order
\* ------------------------------------------------------------------------

\* a failure that leaves the suggested price behind as lastPrice
lastPriceAfterFailureMoved(last, suggested) == suggested

\* lastPrice when api.updateOrderPrice rejects: the assignment is not reached
lastPriceAfterFailure(last, suggested) == last

\* api.updateOrderPrice rejected: trackStopOrder throws at the await, before
\* the session, lastPrice and order are touched, and the polling loop ends
\* with that error
UpdateFails ==
    /\ pc = "updating"
    /\ lastPrice' = lastPriceAfterFailure(lastPrice, pendingPrice)
    /\ pc' = "threw"
    /\ UNCHANGED <<loopFrame, args, order, hasTriggered, pendingPrice, waitTime, lastState,
                   algoOrders, backgroundTasks, returned, mrtc, brokerStatus, nextOrderId,
                   sessionOrder, stopCalls, cancelCalls, onCancelledCalls,
                   pollsSinceCancelSeen>>

\* a failed placement that is swallowed: the poll returns as if the stop stood
TriggerStopFailsCarriesOn ==
    /\ pc = "triggerStop"
    /\ Obtain("keepGoingBackOff")
    /\ UNCHANGED <<loopFrame, args, order, lastPrice, hasTriggered, pendingPrice, waitTime,
                   brokerStatus, nextOrderId, sessionOrder, stopCalls, cancelCalls,
                   onCancelledCalls, pollsSinceCancelSeen>>

\* api.stopOrder rejected in waitForTriggerPrice: openStopOrder throws at the
\* await with hasTriggered already set and no order; backgroundExecute and
\* the polling loop end with that error
TriggerStopFails ==
    /\ pc = "triggerStop"
    /\ pc' = "threw"
    /\ UNCHANGED <<loopFrame, args, order, lastPrice, hasTriggered, pendingPrice, waitTime,
                   lastState, algoOrders, backgroundTasks, returned, mrtc, brokerStatus,
                   nextOrderId, sessionOrder, stopCalls, cancelCalls, onCancelledCalls,
                   pollsSinceCancelSeen>>

\* api.cancelOrders rejected in onCancelled: the polling loop ends with that
\* error before it takes the finished state
CancelFails ==
    /\ pc = "cancelling"
    /\ pc' = "threw"
    /\ UNCHANGED <<loopFrame, args, order, lastPrice, hasTriggered, pendingPrice, waitTime,
                   lastState, algoOrders, backgroundTasks, returned, mrtc, brokerStatus,
                   nextOrderId, sessionOrder, stopCalls, cancelCalls, onCancelledCalls,
                   pollsSinceCancelSeen>>

NextCmdRejecting ==
    \/ NextCmd
    \/ UpdateFails
    \/ TriggerStopFails
    \/ CancelFails

SpecCmdRejecting == InitCmd /\ [][NextCmdRejecting]_vars

\* trackStopOrder is running
C26_Tracking == pc \in {"trackOrder", "trackTicker", "updating"}

\* api.updateOrderPrice has just returned an order
C26_UpdateSucceeded == pc = "updating" /\ pc' = "sleep" /\ lastState' = "keepGoing"

C26_Step ==
    /\ (C26_Tracking /\ <<lastPrice, order, sessionOrder>>' # <<lastPrice, order, sessionOrder>>)
          => C26_UpdateSucceeded
    /\ (pc = "updating" /\ pc' = "threw") => UNCHANGED <<lastPrice, order, sessionOrder>>

\* C26: in trackStopOrder lastPrice, the command's order and the session's
\* order for the tag change only when api.updateOrderPrice has returned an
\* order; when updateOrderPrice fails all three are as they were and still
\* name the old order.
C26_CommitAfterUpdate == [][C26_Step]_vars

\* the move of a placed stop was refused: the old order and price stand
C26_Witness ==
    /\ kind = "trailingStop"
    /\ pc = "threw"
    /\ order # NoOrder
    /\ sessionOrder = order
    /\ pendingPrice # lastPrice
    /\ lastPrice = stopCalls[1].price

\* the price trackStopOrder would move the order to
C27_Suggested == updateTrailingOrderPrice(ticker, args, lastPrice)

\* a step in which trackStopOrder returns a state to the polling loop
C27_PollReturns ==
    /\ pc \in {"trackOrder", "trackTicker", "updating"}
    /\ pc' \in {"sleep", "done"}

C27_Step ==
    /\ C27_PollReturns =>
          /\ lastState' \in {"finished", "keepGoing", "keepGoingBackOff"}
          /\ lastState' = "finished" <=>
                (pc = "trackOrder" /\ brokerStatus \in {"filled", "closed"})
          /\ lastState' = "finished" =>
                UNCHANGED <<order, sessionOrder, lastPrice, nextOrderId>>
          /\ lastState' = "keepGoing" <=> pc = "updating"
          /\ lastState' = "keepGoing" =>
                /\ nextOrderId' = nextOrderId + 1
                /\ order' = nextOrderId
                /\ sessionOrder' = order'
                /\ lastPrice' = pendingPrice
                /\ lastPrice' # lastPrice
          /\ lastState' = "keepGoingBackOff" <=>
                (pc = "trackTicker" /\ C27_Suggested = lastPrice)
          /\ lastState' = "keepGoingBackOff" =>
                UNCHANGED <<order, sessionOrder, lastPrice, nextOrderId>>
    /\ (pc = "trackOrder" /\ pc' # pc) =>
          IF brokerStatus \in {"filled", "closed"} THEN pc' = "done" ELSE pc' = "trackTicker"
    /\ (pc = "trackTicker" /\ pc' # pc) =>
          IF C27_Suggested = lastPrice
          THEN pc' = "sleep"
          ELSE pc' = "updating" /\ pendingPrice' = C27_Suggested
    /\ (pc = "updating" /\ pc' # pc) => pc' = "sleep"

\* C27: a poll of the trailing stop returns Finished exactly when the broker
\* reports the order filled or no longer open, and then moves nothing; it
\* returns KeepGoing exactly when it moved the order with one updateOrderPrice
\* call, after which results() and the session hold the new order; it returns
\* KeepGoingBackOff exactly when the order is still open and the suggested
\* price is lastPrice, and then makes no updateOrderPrice call.
C27_PollOutcome == [][C27_Step]_vars

\* a poll has moved the first order: the second order is the command's and
\* the session's, at the new price, and the poll asked for a fast next poll
C27_Witness ==
    /\ kind = "trailingStop"
    /\ pc = "sleep"
    /\ lastState = "keepGoing"
    /\ order = 2
    /\ sessionOrder = 2
    /\ nextOrderId = 3
    /\ lastPrice = pendingPrice
    /\ lastPrice # stopCalls[1].price

\* ------------------------------------------------------------------------
\* The polling loops under any polling delays
\* ------------------------------------------------------------------------

\* <<minPollingDelay, maxPollingDelay>>: the null exchange's, a pair one
\* apart and a pair of equal delays
PollingDelays == {<<MinPollingDelay, MaxPollingDelay>>, <<1, 2>>, <<1, 1>>}

InitPoll ==
    /\ \E d \in PollingDelays : minPollingDelay = d[1] /\ maxPollingDelay = d[2]
    /\ \/ TrailingCommands
       \/ AggressiveEntries
       \/ StopAndTakeProfits

NextPoll ==
    \/ NextCmd
    \/ NextAggr
    \/ NextStp

SpecPoll == InitPoll /\ [][NextPoll]_vars

\* a loop is in waitSeconds(waitTime)
C28_Sleeping == pc \in {"sleep", "aeWait", "stpWait"}

C28_State == C28_Sleeping => (minPollingDelay <= waitTime /\ waitTime <= maxPollingDelay)

\* runToCompletion: on waking the wait grows by one up to the maximum; a poll
\* that returns keepGoing sets it to the minimum, one that returns
\* keepGoingBackOff leaves it there
C28_Step ==
    /\ (pc = "sleep" /\ pc' # "sleep") =>
          waitTime' = IF waitTime + 1 > maxPollingDelay THEN maxPollingDelay ELSE waitTime + 1
    /\ (pc \notin {"sleep", "new", "ready"} /\ pc' = "sleep" /\ lastState' = "keepGoing") =>
          waitTime' = minPollingDelay
    /\ (pc \notin {"sleep", "new", "ready"} /\ pc' = "sleep" /\ lastState' = "keepGoingBackOff")
          => waitTime' = waitTime

C29_Cancelled ==
    /\ kind = "aggressiveEntry"
    /\ pc = "aeLoop"
    /\ amountLeft >= MinOrderSize
    /\ isAlgoOrderCancelled(algoOrders, TaskId)

\* an iteration goes on to the price, and from there to an order, only past
\* the test of the flag; the iteration that finds the flag set leaves by the
\* cancel exit, cancelling the active order if there is one; an entry that
\* left by it places no order and makes no further call
C29_Step ==
    /\ (pc # "aePrice" /\ pc' = "aePrice") =>
          (pc = "aeLoop" /\ ~isAlgoOrderCancelled(algoOrders, TaskId))
    /\ (pc # "aePlacing" /\ pc' = "aePlacing") => pc = "aePrice"
    /\ nextOrderId' # nextOrderId => pc = "aePlacing"
    /\ (C29_Cancelled /\ pc' # pc) =>
          /\ exitBy' = "cancelled"
          /\ cancelCalls' = IF activeOrder # NoOrder
                             THEN Append(cancelCalls, activeOrder) ELSE cancelCalls
          /\ pc' = IF activeOrder # NoOrder THEN "aeExitCancel" ELSE "aeReturned"
          /\ nextOrderId' = nextOrderId
    /\ exitBy = "cancelled" =>
          /\ nextOrderId' = nextOrderId
          /\ exitBy' = exitBy
          /\ cancelCalls' = cancelCalls
          /\ pc' \in {"aeExitCancel", "aeReturned"}

\* an entry leaves by the cancel exit only with its algo order cancelled, and
\* is then returning or has returned
C29_State ==
    exitBy = "cancelled" =>
        /\ pc \in {"aeExitCancel", "aeReturned"}
        /\ pc = "aeReturned" => returned
        /\ activeOrder # NoOrder => cancelCalls # <<>> /\ cancelCalls[Len(cancelCalls)] = activeOrder

\* C29: aggressiveEntry tests the cancellation flag of its algo order at the
\* top of every iteration of its loop; when the flag is set it cancels the
\* active order if there is one and returns without placing another limit
\* order.
C29_CancelAtTopOfLoop == []C29_State /\ [][C29_Step]_vars

\* an order stood open when the entry was cancelled: the next iteration
\* cancelled it at the broker and the entry returned
C29_Witness ==
    /\ kind = "aggressiveEntry"
    /\ exitBy = "cancelled"
    /\ pc = "aeReturned"
    /\ activeOrder # NoOrder
    /\ cancelCalls = <<activeOrder>>
    /\ brokerStatus = "closed"
    /\ nextOrderId = activeOrder + 1

\* an order is placed only with no active order, for what is left; an open
\* order away from the top of the book is cancelled, and when the cancel is
\* back what it had executed is taken off amountLeft with no order placed in
\* between; amountLeft does not grow; the loop ends with less than the
\* minimum order size left, and only then by this exit
C30_Step ==
    /\ nextOrderId' # nextOrderId =>
          /\ pc = "aePlacing"
          /\ activeOrder = NoOrder
          /\ amountLeft >= MinOrderSize
          /\ \/ pc' = "aeWait" /\ activeOrder' = nextOrderId /\ orderAmount' = amountLeft
             \/ pc' = "aePlacing" /\ activeOrder' = NoOrder
    /\ (pc # "aePlacing" /\ pc' = "aePlacing") => activeOrder = NoOrder
    /\ (pc = "aeOrderQuery" /\ pc' = "aeMoving") =>
          /\ brokerStatus = "open"
          /\ activePrice # currentPrice
          /\ cancelCalls' = Append(cancelCalls, activeOrder)
          /\ infoExecuted' = executed
          /\ UNCHANGED <<activeOrder, amountLeft, nextOrderId>>
    /\ (pc = "aeOrderQuery" /\ brokerStatus = "open" /\ activePrice # currentPrice
          /\ pc' # pc) =>
          \/ pc' = "aeMoving"
          \/ pc' = "aeWait" /\ UNCHANGED <<activeOrder, amountLeft, nextOrderId, cancelCalls>>
    /\ (pc = "aeMoving" /\ pc' # pc) =>
          /\ amountLeft' = amountLeft - infoExecuted
          /\ activeOrder' = NoOrder
          /\ nextOrderId' = nextOrderId
    /\ pc # "new" => amountLeft' <= amountLeft
    /\ (pc = "aeLoop" /\ amountLeft < MinOrderSize /\ pc' # pc) =>
          (pc' = "aeReturned" /\ exitBy' = "filled" /\ nextOrderId' = nextOrderId)
    /\ (exitBy # "filled" /\ exitBy' = "filled") =>
          (pc = "aeLoop" /\ amountLeft < MinOrderSize)

\* C30: in the main loop of aggressiveEntry a limit order is placed only when
\* there is no active order; an active order that is still open while the top
\* of the book differs from the price it was placed at is cancelled and
\* amountLeft reduced by what it had executed before a replacement is placed;
\* amountLeft never increases and the loop ends when amountLeft is below the
\* minimum order size.
C30_OneOrderAtATime == [][C30_Step]_vars

\* a first order was executed in part, then moved away from: it was cancelled,
\* the rest placed as a second order, and the entry ended with that filled
C30_Witness ==
    /\ kind = "aggressiveEntry"
    /\ pc = "aeReturned"
    /\ exitBy = "filled"
    /\ cancelCalls = <<1>>
    /\ nextOrderId = 3
    /\ infoExecuted = 1
    /\ orderAmount = 1
    /\ amountLeft = 0

\* ------------------------------------------------------------------------
\* stopAndTakeProfitOrder: the cancel of the other leg
\* ------------------------------------------------------------------------

\* C31: in stopAndTakeProfitOrder the cancel of the leg that did not win is
\* best-effort: the command does not throw once it has asked the broker to
\* cancel a leg, whatever becomes of that call.
C31_CancelIsBestEffort ==
    (kind = "stopAndTakeProfit" /\ pc = "stpThrew") => cancelCalls = <<>>

\* C39: a stopAndTakeProfitOrder that failed while placing its stop-market leg
\* does not leave the take-profit order it had placed open at the broker.
C39_NoOrphanTakeProfit ==
    (kind = "stopAndTakeProfit" /\ pc = "stpThrew" /\ tpOrder # NoOrder /\ slOrder = NoOrder)
        => tpStatus # "open"

\* ------------------------------------------------------------------------
\* ExchangeManager: what openExchange hands out, and the pool
\* ------------------------------------------------------------------------

\* an openExchange returns e in this step
C33_HandsOut(e) == handedOut'[e] > handedOut[e]

\* C33: openExchange never returns an exchange on which terminate() has been
\* started, in any interleaving of a closeExchange that reached count 0 with
\* an openExchange for the same credentials.
C33_OnlyLiveExchanges ==
    [][\A e \in Exchanges : C33_HandsOut(e) => termCalls[e] = 0]_vars

\* C34: openExchange hands an exchange to a caller only when its init() has
\* completed successfully: an open issued while the first open awaits init()
\* does not get the exchange before that, and not at all if init() fails.
C34_OnlyInitialised ==
    [][\A e \in Exchanges : C33_HandsOut(e) => initDone'[e]]_vars

\* C35: the open pool never holds two entries that match the same credentials
\* record.
C35_OneEntryPerCredentials ==
    \A i, j \in 1..Len(opened) :
        i # j => ~matches(opened[i], exCred[opened[j]])

\* two callers share the one entry of their credentials, made after an
\* earlier exchange of the same credentials was torn down and removed
C35_Witness ==
    \E e, old \in Exchanges :
        /\ e # old
        /\ opened = <<e>>
        /\ refCount[e] = 2
        /\ handedOut[e] = 2
        /\ initDone[e]
        /\ exCred[old] = exCred[e]
        /\ termCalls[old] = 1

\* the steps of one block: its openExchange, and the closeExchange its
\* finally clause defers
BlockStep(c) ==
    \/ OpenExisting(c)
    \/ OpenCreate(c)
    \/ InitOk(c)
    \/ InitFail(c)
    \/ CloseBegin(c)
    \/ CloseFinish(c)

\* the manager with calls that come back: init() and terminate() settle, the
\* sequences end and the deferred closes run
SpecMgrLive == SpecMgr /\ \A c \in Callers : WF_vars(BlockStep(c))

\* every block is over, the pool is empty and every exchange that was
\* constructed has been terminated
C32_Released ==
    /\ MgrQuiescent
    /\ opened = <<>>
    /\ \A e \in Exchanges : exCred[e] # 0 => termCalls[e] >= 1

\* C32: when every call returns and every task finishes, every exchange
\* opened by executeMessage is released in the end: after all blocks are over
\* and their deferred closes have run the pool is empty and every exchange
\* that was opened has been terminated.
C32_EventuallyReleased == <>[]C32_Released

\* all is released after two blocks shared one exchange while the init() of
\* a third block's exchange failed
C32_Witness ==
    /\ C32_Released
    /\ \E e \in Exchanges : handedOut[e] = 2 /\ termCalls[e] = 1
    /\ \E c \in Callers : cpc[c] = "null" /\ handedOut[cex[c]] = 0

\* ------------------------------------------------------------------------
\* The trailing commands when a broker call fails inside the polling loop
\* ------------------------------------------------------------------------

\* a poll of a trailingTakeProfit is in trackStopOrder
C36_Trailing ==
    /\ kind = "trailingTakeProfit"
    /\ pc \in {"trackOrder", "trackTicker", "updating"}

\* in the trailing phase the stop order was asked for, the broker knows it
\* and the command holds it
C36_State ==
    C36_Trailing =>
        /\ hasTriggered
        /\ order # NoOrder
        /\ stopCalls # <<>>
        /\ brokerStatus \in {"open", "filled", "closed"}

\* a placement that fails on the poll that saw the trigger crossed leaves no
\* order, and the command is not polled again
C36_Step ==
    /\ (pc = "triggerStop" /\ pc' = "threw") => (order' = NoOrder /\ hasTriggered')
    /\ pc = "threw" => pc' = "threw"

\* C36: whenever a trailingTakeProfit is in its trailing phase (hasTriggered
\* and a poll in trackStopOrder), a broker stop order has been placed and the
\* command's order is not null; if the placement fails on the poll where the
\* trigger price is crossed, the command does not go on to track an order
\* that does not exist.
C36_TracksAPlacedOrder == []C36_State /\ [][C36_Step]_vars

\* a trailingTakeProfit that triggered, placed its stop and is following it
C36_Witness ==
    /\ kind = "trailingTakeProfit"
    /\ pc = "trackTicker"
    /\ hasTriggered
    /\ order # NoOrder
    /\ sessionOrder = order
    /\ Len(stopCalls) = 1

\* the placement failed on the poll that saw the trigger crossed
C36_PlacementFailed ==
    /\ kind = "trailingTakeProfit"
    /\ pc = "threw"
    /\ hasTriggered
    /\ order = NoOrder
    /\ Len(stopCalls) = 1

\* C40: when backgroundExecute or onCancelled throws inside runToCompletion
\* the command's entry is still removed from the algo registry: the registry
\* keeps no entry for a command that is no longer polled.
C40_NoEntryAfterThrow ==
    (kind \in {"trailingStop", "trailingTakeProfit"} /\ pc = "threw") => ~InRegistry

\* ------------------------------------------------------------------------
\* aggressiveEntry: what stands and what is executed at the broker
\* ------------------------------------------------------------------------

\* the orders of the entry that are open at the broker
C37_Live ==
    {o.id : o \in leftOrders} \cup (IF brokerStatus = "open" THEN {activeOrder} ELSE {})

\* C37: an aggressiveEntry has at most one live limit order at the broker at
\* any time: each order it placed earlier is filled, closed or cancelled
\* before it places another, also across the attempts of placeOrderAtTop when
\* the status of an order cannot be read.
C37_OneLiveOrder ==
    kind = "aggressiveEntry" => Cardinality(C37_Live) <= 1

\* the order size the entry computed at its start (the wallet affords every
\* amount asked for)
C38_OrderSize == args.amount

\* what all orders of the entry have executed
C38_Executed == executedBefore + executed

\* C38: the total executed over all limit orders of one aggressiveEntry never
\* exceeds the order size computed at its start, also when the broker fills
\* part of an order between the status query and the cancel that moves it.
C38_NeverOverfills ==
    (kind = "aggressiveEntry" /\ pc \notin {"new", "aeRejected"}) =>
        C38_Executed <= C38_OrderSize

====
